---------------------------- MODULE Spec2Model ----------------------------
(***************************************************************************)
(* Model of the chunk replicator / recovery engine of                      *)
(* src/src/cc/chunk/Replicator.cc: ReplicatorImpl (direct replication),    *)
(* RSReplicatorImpl (Reed-Solomon recovery), the in-flight registry and    *)
(* the entry points of class Replicator.                                   *)
(*                                                                         *)
(* Sizes are scaled: a checksum block is 2 bytes, the default read size is *)
(* 2 blocks and a chunk holds 4 blocks.  Every handler of the source is an *)
(* operator that maps a "world" record (all the program state plus the     *)
(* answers of the external collaborators for this step) to the world after *)
(* the handler has returned; one action delivers one event.                *)
(***************************************************************************)
EXTENDS Integers, Sequences, FiniteSets, TLC

\* ------------------------------------------------------------------------
\* Bounds of the model
\* ------------------------------------------------------------------------
MaxOps == 1
MaxPreempt == 1
MaxChunkId == 1

\* ------------------------------------------------------------------------
\* Program constants (sizes scaled, error numbers as in errno)
\* ------------------------------------------------------------------------
CHECKSUM_BLOCKSIZE == 2
CHUNKSIZE == 8
kReadSizeBase == 4
kDefaultReplicationReadSize ==
    ((kReadSizeBase + CHECKSUM_BLOCKSIZE - 1) \div CHECKSUM_BLOCKSIZE)
        * CHECKSUM_BLOCKSIZE
ECANCELED == 125
ENOMEM == 12
EINVAL == 22
EIO == 5
EEXIST == 17
EFAULT == 14
ETIMEDOUT == 110
EHOSTUNREACH == 113
EBADCKSUM == 1010

\* Limits of the stripe size, scaled with CHUNKSIZE
KFS_MIN_STRIPE_SIZE == 2
KFS_MAX_STRIPE_SIZE == 8
KFS_STRIPE_ALIGNMENT == 2
KFS_STRIPED_FILE_TYPE_RS == "RS"

kNone == 0
kStart == 1
kRead == 2

\* mWriteOp.chunkVersion: the version of the staging file
kStagingVersion == 0

Ops == 1..(MaxOps + MaxPreempt)
ChunkIds == 1..MaxChunkId

\* Inputs of the environment
OpVersions == {1}
TargetVersions == {-1, 2}
ProbeSizes == {-1, 0, 7, CHUNKSIZE + 1}
ReaderSizes == {0, 3, kDefaultReplicationReadSize}
SmallRecoverChunkSize == CHUNKSIZE - CHECKSUM_BLOCKSIZE

\* Replicator::SetParameters: the values set in place of the defaults
ParameterSets ==
    { [ skip |-> FALSE, maxRecover |-> SmallRecoverChunkSize,
        panic |-> TRUE ] }

\* What the peer answers to the size request
MetaAnswers ==
    { [ status |-> 0, chunkSize |-> sz, chunkVersion |-> 1 ] :
         sz \in ProbeSizes }
    \cup { [ status |-> 0, chunkSize |-> 3, chunkVersion |-> 3 ],
            [ status |-> -EIO, chunkSize |-> 0, chunkVersion |-> 1 ] }

\* What the peer answers to a read of n bytes: the bytes it returns and the
\* number of checksums it sends with them (none, one per block, one too
\* many), which are those of the blocks from the offset of the read on
ReadAnswers(n) ==
    { [ status |-> st, numRd |-> 0, cks |-> 0 ] : st \in {-EBADCKSUM, -EIO} }
    \cup { [ status |-> 0, numRd |-> m,
              cks |-> IF k < 0 THEN 0
                      ELSE (m + CHECKSUM_BLOCKSIZE - 1) \div CHECKSUM_BLOCKSIZE
                              + k ] :
             m \in {n - 1, n}, k \in {-1, 0, 1} }

\* What the RS reader reports for a read: a buffer of size bytes, an
\* error, or an error with a buffer that holds the values vals (stripe
\* index, chunk id and chunk version of a stripe found invalid)
ReaderAnswers ==
    { [ status |-> 0, size |-> sz, vals |-> << >> ] : sz \in ReaderSizes }
    \cup { [ status |-> -EIO, size |-> 0, vals |-> << >> ],
            [ status |-> -EIO, size |-> 0, vals |-> << 2, 77, 9 >> ] }

VARIABLES
    rep,                          \* replicator objects, by request number
    op,                           \* the ReplicateChunkOp of each request
    sInFlightReplications,        \* registry: set of <<chunkId, replicator>>
    store,                        \* what the chunk manager was asked to do
    peerLog,                      \* reads issued to the source peer / reader
    sCounters,
    sReadSkipDiskVerifyFlag,
    sRSReaderMaxRecoverChunkSize,
    sRSReaderPanicOnInvalidChunkFlag,
    nextOp,                       \* number of the next request
    fatal,                        \* "none", or why the process died
    threadCount,                  \* gClientManager.GetClientThreadCount()
    clientQuota,                  \* GetBufferManager().GetMaxClientQuota()
    sLastIdx,
    sMaxCount,                    \* 0 until the statics are initialised
    sMaxRecoveryThreads,
    sRSReaderMaxReadSize,
    sAuthUpdateCount,
    sAuthParams,
    sMetaServersAuth,             \* the slots, by index
    made                          \* the replicators made by Create

vars == << rep, op, sInFlightReplications, store, peerLog, sCounters,
           sReadSkipDiskVerifyFlag, sRSReaderMaxRecoverChunkSize,
           sRSReaderPanicOnInvalidChunkFlag, nextOp, fatal, threadCount,
           clientQuota, sLastIdx, sMaxCount, sMaxRecoveryThreads,
           sRSReaderMaxReadSize, sAuthUpdateCount, sAuthParams,
           sMetaServersAuth, made >>

\* ------------------------------------------------------------------------
\* Records
\* ------------------------------------------------------------------------
NoReadOp ==
    [ offset |-> 0, numBytes |-> 0, numBytesIO |-> 0, status |-> 0,
      skipVerifyDiskChecksumFlag |-> FALSE, dataBuf |-> 0,
      checksum |-> << >> ]

NoWriteOp ==
    [ offset |-> 0, numBytes |-> 0, numBytesIO |-> 0, status |-> 0,
      checksums |-> << >> ]

NoMetaOp == [ status |-> 0, chunkSize |-> 0, chunkVersion |-> 0 ]

\* A buffer (dataBuf, mReadTail) is the number of bytes it holds; a checksum
\* vector (mReadOp.checksum, mWriteOp.checksums) is the sequence of the
\* numbers of the checksum blocks of the chunk its entries were computed
\* from.
\* obj: "none" (not constructed), "live", "dead" (destructor has run; the
\* record keeps what was still to be delivered to the object).
\* cancelled: "no", or what the replicator was waiting for when Cancel()
\* was first called on it; cancels, starts: the number of calls of Cancel()
\* and of Start().
\* pend: the completion the replicator waits for from the peer or the chunk
\* manager: "none", "size", "read", "write", "vers".
NoRep ==
    [ obj |-> "none", isRS |-> FALSE, hasThread |-> FALSE,
      mChunkId |-> 0, mChunkVersion |-> 0, mChunkSize |-> 0, mOffset |-> 0,
      mOwner |-> FALSE, mDone |-> FALSE, mCancelFlag |-> FALSE,
      mFileHandle |-> FALSE, waiting |-> FALSE, pend |-> "none",
      mChunkMetadataOp |-> NoMetaOp, mReadOp |-> NoReadOp,
      mWriteOp |-> NoWriteOp,
      mState |-> kNone, mReadInFlightFlag |-> FALSE,
      mPendingCloseFlag |-> FALSE, mPendingCancelFlag |-> FALSE,
      mReadTail |-> 0, mLocationValid |-> FALSE,
      readerOpen |-> FALSE, readerReq |-> FALSE, readerPos |-> 0,
      queued |-> FALSE, step |-> "none", ref |-> 0, cancelled |-> "no",
      cancels |-> 0, starts |-> 0 ]

NoOp ==
    [ chunkId |-> 0, chunkVersion |-> 0, targetVersion |-> -1,
      locationValid |-> FALSE, numStripes |-> 0,
      numRecoveryStripes |-> 0, fileSize |-> 0, status |-> 0,
      statusMsg |-> "", invalidStripeIdx |-> << >>, submitted |-> 0 ]

NoStore ==
    [ allocTarget |-> -2, allocVersion |-> -2, writes |-> << >>,
      released |-> << >>, versions |-> << >> ]

NoCounters ==
    [ mReplicatorCount |-> 0, mReplicationCount |-> 0,
      mReplicationErrorCount |-> 0, mReplicationCanceledCount |-> 0,
      mRecoveryCount |-> 0, mRecoveryErrorCount |-> 0,
      mRecoveryCanceledCount |-> 0 ]

\* The answers of the external collaborators to the synchronous calls made
\* while one event is handled.
NoAnswers ==
    [ overQuota |-> FALSE, granted |-> TRUE, alloc |-> 0, wsync |-> 0,
      vers |-> 0, open |-> 0, rsync |-> 0, active |-> FALSE,
      ndebug |-> FALSE ]

World ==
    [ rep |-> rep, op |-> op, reg |-> sInFlightReplications,
      store |-> store, peerLog |-> peerLog, ctrs |-> sCounters,
      skipFlag |-> sReadSkipDiskVerifyFlag,
      maxRecover |-> sRSReaderMaxRecoverChunkSize,
      panic |-> sRSReaderPanicOnInvalidChunkFlag,
      fatal |-> fatal, cur |-> "main", locked |-> TRUE, x |-> NoAnswers,
      ret |-> FALSE, todo |-> << >> ]

Commit(w) ==
    /\ rep' = w.rep
    /\ op' = w.op
    /\ sInFlightReplications' = w.reg
    /\ store' = w.store
    /\ peerLog' = w.peerLog
    /\ sCounters' = w.ctrs
    /\ sReadSkipDiskVerifyFlag' = w.skipFlag
    /\ sRSReaderMaxRecoverChunkSize' = w.maxRecover
    /\ sRSReaderPanicOnInvalidChunkFlag' = w.panic
    /\ fatal' = w.fatal
    /\ UNCHANGED << threadCount, clientQuota, sLastIdx, sMaxCount,
                    sMaxRecoveryThreads, sRSReaderMaxReadSize,
                    sAuthUpdateCount, sAuthParams, sMetaServersAuth, made >>

\* die(): the process aborts; nothing after it runs.
Die(w, msg) == IF w.fatal = "none" THEN [w EXCEPT !.fatal = msg] ELSE w

Dead(w) == w.fatal # "none"

Min(a, b) == IF a < b THEN a ELSE b
Max(a, b) == IF a < b THEN b ELSE a

\* ------------------------------------------------------------------------
\* Registry (std::map<chunkId, ReplicatorImpl*>)
\* ------------------------------------------------------------------------
RegFind(reg, c) == { e \in reg : e[1] = c }

\* std::map::insert: nothing changes when the key is present.
RegInsert(reg, c, r) ==
    IF RegFind(reg, c) = {} THEN reg \cup { << c, r >> } ELSE reg

\* res.first->second = this
RegAssign(reg, c, r) == (reg \ RegFind(reg, c)) \cup { << c, r >> }

RegErase(reg, c) == reg \ RegFind(reg, c)

\* ------------------------------------------------------------------------
\* Reference counting and destruction
\* ------------------------------------------------------------------------
\* The destructor without the erase
KeepEntry(reg, c, r) == reg

\* The destructor erasing whatever entry the chunkId has
EraseAnyEntry(reg, c, r) == RegErase(reg, c)

\* it != end() && it->second == this: erase(it)
EraseOwnEntry(reg, c, r) ==
    IF << c, r >> \in reg THEN RegErase(reg, c) ELSE reg

\* ~RSReplicatorImpl, then ~ReplicatorImpl
Destroy(w, r) ==
    LET me == w.rep[r]
        reg1 == EraseOwnEntry(w.reg, me.mChunkId, r)
    IN  IF me.mOwner \/ w.ctrs.mReplicatorCount <= 0
        THEN Die(w, "assert: destructor")
        ELSE [w EXCEPT !.reg = reg1,
                       !.ctrs.mReplicatorCount = @ - 1,
                       !.rep[r] = [ NoRep EXCEPT !.obj = "dead",
                                                 !.waiting = me.waiting,
                                                 !.pend = me.pend,
                                                 !.queued = me.queued,
                                                 !.step = me.step,
                                                 !.cancelled = me.cancelled,
                                                 !.cancels = me.cancels,
                                                 !.starts = me.starts ]]

Ref(w, r) == [w EXCEPT !.rep[r].ref = @ + 1]

UnRef(w, r) ==
    LET w1 == [w EXCEPT !.rep[r].ref = @ - 1]
    IN  IF w1.rep[r].ref = 0 THEN Destroy(w1, r) ELSE w1

SubmitOpResponse(w, o) == [w EXCEPT !.op[o].submitted = @ + 1]

\* ------------------------------------------------------------------------
\* Calls.  A handler does its own work on the world and names the handlers
\* it calls; Exec runs them, innermost call first, until none is left.
\* ------------------------------------------------------------------------
\* Call handler f of replicator r with argument a, before the calls that
\* are already waiting
Call(w, f, r, a) ==
    [w EXCEPT !.todo = << [ f |-> f, r |-> r, a |-> a ] >> \o @]

\* StRef ref(*this): the reference is dropped when the handler returns
StRef(w, r) == Call(Ref(w, r), "UnRef", r, 0)

\* What the replicator waits for
InFlight(me) ==
    IF me.waiting THEN "grant"
    ELSE IF me.pend # "none" THEN me.pend
    ELSE IF me.readerReq THEN "reader"
    ELSE IF me.queued \/ me.step # "none" THEN "thread"
    ELSE "idle"

\* virtual void Read() / Start() / Cancel()
VRead(w, r) ==
    Call(w, IF w.rep[r].isRS THEN "RSReplicatorImpl::Read"
            ELSE "ReplicatorImpl::Read", r, 0)

VStart(w, r) ==
    Call([w EXCEPT !.rep[r].starts = @ + 1], IF w.rep[r].isRS THEN "RSReplicatorImpl::Start"
            ELSE "ReplicatorImpl::Start", r, 0)

VCancel(w, r) ==
    Call([w EXCEPT !.rep[r].cancelled =
                      IF @ = "no" THEN InFlight(w.rep[r]) ELSE @,
                   !.rep[r].cancels = @ + 1],
         IF w.rep[r].isRS THEN "RSReplicatorImpl::Cancel"
         ELSE "ReplicatorImpl::Cancel", r, 0)

\* ------------------------------------------------------------------------
\* ReplicatorImpl
\* ------------------------------------------------------------------------
\* ReplicationDone on a handle that stays in mFileHandle
ReleaseFileKeepHandle(w, r, status) ==
    IF w.rep[r].mFileHandle
    THEN [w EXCEPT !.store[r].released = Append(@, status)]
    ELSE w

\* gChunkManager.ReplicationDone(mChunkId, status, fileH) on a swapped-out
\* handle
ReleaseFile(w, r, status) ==
    IF w.rep[r].mFileHandle
    THEN [w EXCEPT !.rep[r].mFileHandle = FALSE,
                   !.store[r].released = Append(@, status)]
    ELSE w

OpStatusOf(status) == IF status >= 0 THEN 0 ELSE status

CountFailure(w, r) ==
    LET me == w.rep[r]
        o  == w.op[r]
    IN  IF o.status < 0 \/ me.mCancelFlag
        THEN IF o.locationValid
             THEN IF me.mCancelFlag
                  THEN [w EXCEPT !.ctrs.mReplicationCanceledCount = @ + 1]
                  ELSE [w EXCEPT !.ctrs.mReplicationErrorCount = @ + 1]
             ELSE IF me.mCancelFlag
                  THEN [w EXCEPT !.ctrs.mRecoveryCanceledCount = @ + 1]
                  ELSE [w EXCEPT !.ctrs.mRecoveryErrorCount = @ + 1]
        ELSE w

ReportedVersionUnlessFailed(me, status) ==
    IF status >= 0 THEN me.mChunkVersion ELSE -1

\* The version reported in op.chunkVersion
ReportedVersion(me, status) ==
    IF ~me.mCancelFlag /\ status >= 0 THEN me.mChunkVersion ELSE -1

\* ReplicatorImpl::HandleReplicationDone
HandleReplicationDone(w, r, status) ==
    IF ~w.rep[r].mOwner THEN Die(w, "assert: mOwner")
    ELSE
    LET me == w.rep[r]
        w1 == [w EXCEPT !.op[r].status = OpStatusOf(status)]
        w2 == ReleaseFile(w1, r, status)
        w3 == [w2 EXCEPT !.op[r].chunkVersion = ReportedVersion(me, status)]
        w4 == CountFailure(w3, r)
        w5 == [w4 EXCEPT !.rep[r].mOwner = FALSE]
        w6 == UnRef(w5, r)
    IN  SubmitOpResponse(w6, r)

TerminateResAsGiven(status) == status

\* res = status < 0 ? status : (status == 0 ? -1 : -status)
TerminateRes(status) ==
    IF status < 0 THEN status ELSE IF status = 0 THEN -1 ELSE -status

TargetOrSourceVersion(me, o) ==
    IF 0 <= o.targetVersion THEN o.targetVersion ELSE me.mChunkVersion

\* The version handed to gChunkManager.ChangeChunkVers
FinalVersion(me, o) == me.mChunkVersion

NotCancelled(me) == ~me.mCancelFlag

\* mDone && ! mCancelFlag
Finished(me) == me.mDone /\ ~me.mCancelFlag

\* ReplicatorImpl::Terminate
Terminate(w, r, status) ==
    LET me == w.rep[r]
    IN  IF Finished(me)
        THEN LET w1 == [w EXCEPT !.store[r].versions =
                           Append(@, FinalVersion(me, w.op[r]))]
             IN  IF w.x.vers = 0
                 THEN [w1 EXCEPT !.rep[r].pend = "vers"]
                 ELSE Call(w1, "HandleReplicationDone", r, w.x.vers)
        ELSE Call(w, "HandleReplicationDone", r, TerminateRes(status))

LogRead(w, r, offset, numBytes, skip) ==
    [w EXCEPT !.peerLog[r] = Append(@,
        [ offset |-> offset, numBytes |-> numBytes, skip |-> skip,
          status |-> 1 ])]

\* The completion status of the read issued last
LogReadStatus(w, r, status) ==
    [w EXCEPT !.peerLog[r][Len(w.peerLog[r])].status = status]

\* The flag set again for every read but the retry of a read that failed
\* with EBADCKSUM
SkipVerifyUnlessRetry(me) ==
    ~(me.mReadOp.status = -EBADCKSUM /\ me.mReadOp.offset = me.mOffset)

\* if (mOffset % CHECKSUM_BLOCKSIZE != 0) skipVerifyDiskChecksumFlag = false:
\* the flag the read is issued with
SkipVerify(me) ==
    IF me.mOffset % CHECKSUM_BLOCKSIZE # 0
    THEN FALSE
    ELSE me.mReadOp.skipVerifyDiskChecksumFlag

\* ReplicatorImpl::Read
BaseRead(w, r) ==
    LET me == w.rep[r]
        w0 == StRef(w, r)
    IN  IF me.mCancelFlag \/ ~me.mOwner
        THEN Die(w, "assert: Read")
        ELSE IF me.mOffset >= me.mChunkSize
        THEN LET done == (me.mOffset = me.mChunkSize)
             IN  Call([w0 EXCEPT !.rep[r].mDone = done], "Terminate", r,
                      IF done THEN 0 ELSE -EIO)
        ELSE
        LET skip == SkipVerify(me)
            n    == Min(me.mChunkSize - me.mOffset,
                        kDefaultReplicationReadSize)
        IN  LogRead([w0 EXCEPT !.rep[r].mReadOp =
                        [ offset |-> me.mOffset, numBytes |-> n,
                          numBytesIO |-> 0, status |-> 0,
                          skipVerifyDiskChecksumFlag |-> skip,
                          dataBuf |-> 0, checksum |-> << >> ],
                               !.rep[r].pend = "read"],
                    r, me.mOffset, n, skip)

\* ReplicatorImpl::Start
BaseStart(w, r) ==
    [w EXCEPT !.rep[r].mReadOp.skipVerifyDiskChecksumFlag = w.skipFlag,
              !.rep[r].pend = "size"]

\* The status Cancel hands to ReplicationDone for the staging file
CancelReleaseStatus == -ECANCELED

\* ReplicatorImpl::Cancel
BaseCancel(w, r) ==
    LET w1 == ReleaseFile([w EXCEPT !.rep[r].mCancelFlag = TRUE], r,
                          CancelReleaseStatus)
    IN  IF w.rep[r].waiting
        THEN Call([w1 EXCEPT !.rep[r].waiting = FALSE], "Terminate", r,
                  ECANCELED)
        ELSE w1

\* The target version handed to gChunkManager.AllocChunk
AllocTargetVersion(me, o) ==
    IF 0 <= o.targetVersion THEN o.targetVersion ELSE me.mChunkVersion

\* The size test without its upper bound
NegativeChunkSize(sz) == sz < 0

\* mChunkSize < 0 || mChunkSize > (int64_t)CHUNKSIZE
InvalidChunkSize(sz) == sz < 0 \/ sz > CHUNKSIZE

\* ReplicatorImpl::HandleStartDone
HandleStartDone(w, r) ==
    LET me == w.rep[r]
        mo == me.mChunkMetadataOp
    IN  IF me.mCancelFlag \/ mo.status < 0
        THEN Call(w, "Terminate", r,
                  IF me.mCancelFlag THEN ECANCELED ELSE mo.status)
        ELSE
        LET w1 == [w EXCEPT !.rep[r].mChunkSize = mo.chunkSize,
                            !.rep[r].mChunkVersion = mo.chunkVersion]
        IN  IF InvalidChunkSize(w1.rep[r].mChunkSize)
            THEN Call(w1, "Terminate", r, EINVAL)
            ELSE IF me.mFileHandle THEN Die(w1, "assert: mFileHandle")
            ELSE IF w.x.alloc < 0
            THEN Call(IF w.x.alloc = -EEXIST /\ me.mOwner
                      THEN [w1 EXCEPT !.op[r].statusMsg =
                       "readable chunk with target version already exists"]
                      ELSE w1,
                      "Terminate", r, w.x.alloc)
            ELSE VRead([w1 EXCEPT !.rep[r].mFileHandle = TRUE,
                                  !.store[r].allocVersion = kStagingVersion,
                                  !.store[r].allocTarget =
                                      AllocTargetVersion(w1.rep[r], w.op[r])],
                       r)

NoRetry(rd) == FALSE

\* The retry of HandleReadDone is taken for this completion
RetryWithVerify(rd) ==
    rd.skipVerifyDiskChecksumFlag /\ rd.status = -EBADCKSUM

CeilBlocks(n) == (n + CHECKSUM_BLOCKSIZE - 1) \div CHECKSUM_BLOCKSIZE

\* The checksums of the k blocks that start at offset
BlockChecksums(offset, k) ==
    [ j \in 1..k |-> (offset \div CHECKSUM_BLOCKSIZE) + j - 1 ]

\* ComputeChecksums(&buf, numBytes) for the buffer read at offset
ComputeChecksums(offset, numBytes) ==
    BlockChecksums(offset, CeilBlocks(numBytes))

\* resize(1) without front() = back()
FirstChecksum(cks) == << cks[1] >>

\* mReadOp.checksum.front() = mReadOp.checksum.back(); resize(1)
LastChecksum(cks) == << cks[Len(cks)] >>

\* mWriteOp.checksums.pop_back()
PopBack(cks) == SubSeq(cks, 1, Len(cks) - 1)

\* gChunkManager.WriteChunk(&mWriteOp, &mFileHandle)
WriteChunk(w, r) ==
    IF w.x.wsync < 0 THEN Call(w, "Terminate", r, w.x.wsync)
    ELSE [w EXCEPT !.rep[r].pend = "write",
                   !.store[r].writes = Append(@,
                      [ offset |-> w.rep[r].mWriteOp.offset,
                        numBytes |-> w.rep[r].mWriteOp.numBytes,
                        checksums |-> w.rep[r].mWriteOp.checksums ])]

\* The whole read written at once
WriteBytesUnaligned(numRd) == numRd

\* mWriteOp.numBytes: numRd, or numRd - numRd % kChecksumBlockSize when
\* numRd > kChecksumBlockSize
WriteBytes(numRd) ==
    IF numRd > CHECKSUM_BLOCKSIZE
    THEN numRd - (numRd % CHECKSUM_BLOCKSIZE) ELSE numRd

\* The tail kept together with the last whole block
TailWithLastBlock(numRd) ==
    IF numRd % CHECKSUM_BLOCKSIZE = 0 THEN 0
    ELSE (numRd % CHECKSUM_BLOCKSIZE) + CHECKSUM_BLOCKSIZE

\* const int numBytes = numRd % kChecksumBlockSize
TailBytes(numRd) == numRd % CHECKSUM_BLOCKSIZE

\* No read is taken as short
NeverShort(me, rd, numRd) == FALSE

\* numRd < (int)mReadOp.numBytes && mOffset + numRd < mChunkSize
ShortRead(me, rd, numRd) ==
    numRd < rd.numBytes /\ me.mOffset + numRd < me.mChunkSize

\* ReplicatorImpl::HandleReadDone
HandleReadDone(w, r) ==
    LET me == w.rep[r]
        rd == me.mReadOp
        numRd == rd.dataBuf
    IN  IF me.mCancelFlag THEN Call(w, "Terminate", r, ECANCELED)
        ELSE IF rd.status < 0 /\ RetryWithVerify(rd)
        THEN VRead([w EXCEPT
                      !.rep[r].mReadOp.skipVerifyDiskChecksumFlag = FALSE],
                   r)
        ELSE
        LET status == IF rd.status >= 0 /\ ShortRead(me, rd, numRd)
                      THEN -EINVAL ELSE rd.status
            w1 == [w EXCEPT !.rep[r].mReadOp.status = status]
        IN  IF status < 0 \/ me.mChunkSize <= me.mOffset
            THEN LET done == (me.mOffset = me.mChunkSize /\ 0 <= status)
                 IN  Call([w1 EXCEPT !.rep[r].mDone = done], "Terminate", r,
                          IF done THEN 0 ELSE status)
            ELSE IF me.mOffset % CHECKSUM_BLOCKSIZE # 0
                    \/ (rd.checksum # << >>
                            /\ Len(rd.checksum) # CeilBlocks(numRd))
            THEN Die(w1, "replicator: invalid read completion")
            ELSE
            LET numBytes == TailBytes(numRd)
                endPos   == me.mOffset + numRd
                big      == numRd > CHECKSUM_BLOCKSIZE
                split    == big /\ numBytes > 0 /\ endPos = me.mChunkSize
                wrBytes  == WriteBytes(numRd)
                wop      == [ offset |-> me.mOffset, numBytes |-> wrBytes,
                              numBytesIO |-> 0, status |-> 0,
                              checksums |->
                                 IF split /\ rd.checksum # << >>
                                 THEN PopBack(rd.checksum)
                                 ELSE rd.checksum ]
                rop      == IF split
                            THEN [ rd EXCEPT
                                     !.status = status,
                                     !.dataBuf = numBytes,
                                     !.offset = me.mOffset + wrBytes,
                                     !.numBytesIO = numBytes,
                                     !.numBytes = numBytes,
                                     !.checksum =
                                        IF rd.checksum # << >>
                                        THEN LastChecksum(rd.checksum)
                                        ELSE << >> ]
                            ELSE [ rd EXCEPT !.status = status,
                                             !.dataBuf = 0 ]
            IN  IF big /\ numBytes # 0 /\ endPos # me.mChunkSize
                THEN Die(w1, "assert: numBytes == 0 || endPos == mChunkSize")
                ELSE WriteChunk([w1 EXCEPT !.rep[r].mWriteOp = wop,
                                           !.rep[r].mReadOp = rop], r)

\* mOffset += mWriteOp.numBytesIO
NextOffsetTwice(me) == me.mOffset + 2 * me.mWriteOp.numBytesIO

NextOffsetStuck(me) == me.mOffset

NextOffset(me) == me.mOffset + me.mWriteOp.numBytesIO

\* ReplicatorImpl::HandleWriteDone
HandleWriteDone(w, r) ==
    LET me == w.rep[r]
        w0 == StRef(w, r)
    IN  IF me.mCancelFlag \/ me.mWriteOp.status < 0
        THEN Call(w0, "Terminate", r,
                  IF me.mCancelFlag THEN ECANCELED ELSE me.mWriteOp.status)
        ELSE
        LET mOffset == NextOffset(me)
            w1 == [w0 EXCEPT !.rep[r].mOffset = mOffset]
        IN  IF me.mReadOp.offset = mOffset /\ me.mReadOp.dataBuf # 0
            THEN IF me.mReadOp.dataBuf >= CHECKSUM_BLOCKSIZE
                 THEN Die(w1, "assert: tail shorter than a block")
                 ELSE Call(w1, "HandleReadDone", r, 0)
            ELSE VRead(w1, r)

\* ------------------------------------------------------------------------
\* RSReplicatorImpl
\* ------------------------------------------------------------------------
RSReadSize == kDefaultReplicationReadSize

\* RSReplicatorImpl::HandleCompletion; data is "meta" (&mChunkMetadataOp)
\* or "read" (&mReadOp)
HandleCompletion(w, r, data) ==
    IF w.rep[r].mPendingCancelFlag THEN w
    ELSE Call([w EXCEPT !.rep[r].mState = kNone],
              IF data = "meta" THEN "HandleStartDone" ELSE "HandleReadDone",
              r, 0)

\* StMutexLocker lock(mClientThreadPtr); HandleCompletion(data): on the
\* client thread the mutex is taken in a later step.
LockedCompletion(w, r, data) ==
    IF w.locked THEN Call(w, "HandleCompletion", r, data)
    ELSE [w EXCEPT !.rep[r].step = data]

\* RSReplicatorImpl::HandleRead
HandleRead(w, r) ==
    LET me == w.rep[r]
    IN  IF me.mCancelFlag \/ ~me.mOwner \/ me.mReadInFlightFlag
        THEN Die(w, "assert: HandleRead")
        ELSE IF me.mOffset >= me.mChunkSize \/ me.mReadOp.status < 0
        THEN LockedCompletion(w, r, "read")
        ELSE
        LET w1 == [StRef(w, r) EXCEPT
                      !.rep[r].mReadOp.status = 0,
                      !.rep[r].mReadOp.numBytes = RSReadSize,
                      !.rep[r].mReadOp.numBytesIO = 0,
                      !.rep[r].mReadOp.offset = me.mOffset,
                      !.rep[r].mReadOp.dataBuf = 0]
            w2 == LogRead(w1, r, me.mOffset + me.mReadTail, RSReadSize,
                          FALSE)
        IN  IF w.x.rsync # 0
            THEN LockedCompletion(
                    LogReadStatus(
                        [w2 EXCEPT !.rep[r].mReadOp.status = w.x.rsync],
                        r, w.x.rsync),
                    r, "read")
            ELSE [w2 EXCEPT !.rep[r].mReadInFlightFlag = TRUE,
                            !.rep[r].readerReq = TRUE,
                            !.rep[r].readerPos = me.mOffset + me.mReadTail]

\* RSReplicatorImpl::HandleStart; the answer "open" is the outcome of
\* SetParameters / SetServer / mReader.Open
HandleStart(w, r) ==
    LET me == w.rep[r]
    IN  IF me.mCancelFlag \/ ~me.mOwner \/ w.op[r].status # 0
            \/ me.mReadInFlightFlag \/ ~me.mLocationValid
        THEN Die(w, "assert: HandleStart")
        ELSE LockedCompletion(
                [w EXCEPT !.rep[r].mChunkMetadataOp.status = w.x.open,
                          !.rep[r].readerOpen = (w.x.open = 0)],
                r, "meta")

\* RSReplicatorImpl::HandleCancel, up to ReplicatorImpl::Cancel()
HandleCancel(w, r) ==
    LET w0 == StRef(w, r)
        prevRef == w0.rep[r].ref
        \* mReader.Unregister(this); mReader.Shutdown()
        w1 == [w0 EXCEPT !.rep[r].readerReq = FALSE,
                         !.rep[r].readerOpen = FALSE]
    IN  IF w1.rep[r].queued THEN w1
        ELSE Call(Call(w1, "HandleCancel (after Cancel)", r, prevRef),
                  "ReplicatorImpl::Cancel", r, 0)

\* RSReplicatorImpl::HandleCancel, after ReplicatorImpl::Cancel()
HandleCancelRest(w, r, prevRef) ==
    LET me == w.rep[r]
    IN  IF me.ref < prevRef \/ me.mState = kNone THEN w
        ELSE IF me.mReadInFlightFlag
        THEN IF ~me.mOwner THEN Die(w, "assert: HandleCancel owner")
             ELSE Call([w EXCEPT !.rep[r].mReadInFlightFlag = FALSE,
                                 !.rep[r].mReadOp.status = -ETIMEDOUT],
                       "HandleReadDone", r, 0)
        ELSE IF me.mState # kStart /\ ~w.x.ndebug
        THEN Die(w, "assert: mState == kStart")
        ELSE Call([w EXCEPT !.rep[r].mChunkMetadataOp.status = -ETIMEDOUT],
                  "HandleStartDone", r, 0)

\* RSReplicatorEntry::Enqueue(): hand the entry to the client thread
ThreadEnqueue(w, r) == [w EXCEPT !.rep[r].queued = TRUE]

\* RSReplicatorImpl::Enqueue
Enqueue(w, r, inState) ==
    LET me == w.rep[r]
    IN  IF me.mPendingCancelFlag /\ me.mState # inState
        THEN Die(w, "recovery: invalid cancel enqueue")
        ELSE IF ~me.mPendingCancelFlag /\ me.mState # kNone
        THEN Die(w, "recovery: invalid state transtion")
        ELSE
        LET w1 == IF me.mPendingCancelFlag THEN w
                  ELSE [w EXCEPT !.rep[r].mState = inState]
        IN  IF me.hasThread /\ w.cur # "client"
            THEN ThreadEnqueue(w1, r)
            ELSE Call(w1, "Handle", r, 0)

\* Cancel without the test of mPendingCancelFlag
RSCancelAgain(w, r) ==
    Call([w EXCEPT !.rep[r].mPendingCancelFlag = TRUE], "Enqueue", r,
         w.rep[r].mState)

\* RSReplicatorImpl::Cancel
RSCancel(w, r) ==
    IF w.rep[r].mPendingCancelFlag THEN w
    ELSE Call([w EXCEPT !.rep[r].mPendingCancelFlag = TRUE], "Enqueue", r,
              w.rep[r].mState)

\* Read without the test of mPendingCancelFlag
RSReadWhileCancelPending(w, r) ==
    IF w.rep[r].mState # kNone THEN Die(w, "assert: RS Read")
    ELSE Call(w, "Enqueue", r, kRead)

\* RSReplicatorImpl::Read
RSRead(w, r) ==
    IF w.rep[r].mState # kNone THEN Die(w, "assert: RS Read")
    ELSE IF w.rep[r].mPendingCancelFlag THEN w
    ELSE Call(w, "Enqueue", r, kRead)

\* RSReplicatorImpl::Start
RSStart(w, r) ==
    LET me == w.rep[r]
    IN  IF ~me.mOwner \/ w.op[r].status # 0 \/ me.mState # kNone
        THEN Die(w, "assert: RS Start")
        ELSE IF me.mPendingCancelFlag THEN w
        ELSE
        LET w1 == [w EXCEPT
                     !.rep[r].mChunkMetadataOp =
                        [ status |-> 0, chunkSize |-> CHUNKSIZE,
                          chunkVersion |-> w.op[r].chunkVersion ],
                     !.rep[r].mReadOp.status = 0,
                     !.rep[r].mReadOp.numBytes = 0,
                     !.rep[r].mReadOp.skipVerifyDiskChecksumFlag = FALSE]
        IN  IF ~me.mLocationValid
            THEN Call([w1 EXCEPT !.rep[r].mChunkMetadataOp.status = -EINVAL],
                      "HandleCompletion", r, "meta")
            ELSE Call(w1, "Enqueue", r, kStart)

\* RSReplicatorImpl::Handle
Handle(w, r) ==
    IF w.rep[r].mPendingCancelFlag THEN Call(w, "HandleCancel", r, 0)
    ELSE IF w.rep[r].mState = kStart THEN Call(w, "HandleStart", r, 0)
    ELSE IF w.rep[r].mState = kRead THEN Call(w, "HandleRead", r, 0)
    ELSE Die(w, "recovery: invalid state")

\* sRSReaderMaxRecoverChunkSize < mOffset + pendingSize
WithinMaxRecover(maxRecover, mOffset, pendingSize) == FALSE

ExceedsMaxRecover(maxRecover, mOffset, pendingSize) ==
    maxRecover < mOffset + pendingSize

NoCloseRef(active) == 0

\* mPendingCloseFlag = mReader.IsActive(); if (mPendingCloseFlag) Ref()
CloseRef(active) == IF active THEN 1 ELSE 0

\* AppendDecIntToString: the decimal digits of n, with its sign
DecimalDigits == << "0", "1", "2", "3", "4", "5", "6", "7", "8", "9" >>

RECURSIVE AppendDecIntToString(_, _)
AppendDecIntToString(str, n) ==
    IF n < 0 THEN AppendDecIntToString(Append(str, "-"), -n)
    ELSE IF n < 10 THEN Append(str, DecimalDigits[n + 1])
    ELSE Append(AppendDecIntToString(str, n \div 10),
                DecimalDigits[(n % 10) + 1])

\* A stripe index is refused when it is negative only
NegativeStripeIndex(idx, ns) == idx < 0

\* idx < 0 || idx >= ns
InvalidStripeIndex(idx, ns) == idx < 0 \/ idx >= ns

\* The loop of Done over the buffer of an error completion: buf holds the
\* values still to be read, n the number of stripes reported so far.
\* ReadVal dies on a buffer that ends inside a value; here a value is one
\* element, so the buffer can only end between two values.
RECURSIVE StripeReport(_, _, _, _)
StripeReport(buf, ns, n, str) ==
    IF buf = << >> THEN [ str |-> str, n |-> n, die |-> "" ]
    ELSE IF n >= ns
    THEN [ str |-> str, n |-> 0,
           die |-> "recovery: completion: invalid number of bad stripes" ]
    ELSE IF Len(buf) < 3
    THEN [ str |-> str, n |-> n, die |-> "invalid buffer size" ]
    ELSE IF InvalidStripeIndex(buf[1], ns)
    THEN [ str |-> str, n |-> 0,
           die |-> "recovery: completion: invalid bad stripe index" ]
    ELSE StripeReport(
            SubSeq(buf, 4, Len(buf)), ns, n + 1,
            AppendDecIntToString(
                Append(AppendDecIntToString(
                           Append(AppendDecIntToString(
                                      IF 0 < n THEN Append(str, " ")
                                      ELSE str,
                                      buf[1]),
                                  " "),
                           buf[2]),
                       " "),
                buf[3]))

\* Report invalid stripes: mOwner->invalidStripeIdx
ReportInvalidStripes(w, r, vals) ==
    LET ns  == w.op[r].numStripes + w.op[r].numRecoveryStripes
        res == StripeReport(vals, ns, 0, << >>)
        w1  == [w EXCEPT !.op[r].invalidStripeIdx = res.str]
    IN  IF res.die # "" THEN Die(w1, res.die)
        ELSE IF res.n > 0 /\ w.panic /\ 0 < w.op[r].fileSize
        THEN Die(w1, "recovery: invalid chunk(s) detected")
        ELSE w1

\* A buffer is refused for its size only
OverlongCompletion(me, a) == a.hasBuf /\ a.size > me.mReadOp.numBytes

\* inBufferPtr && (inSize > mReadOp.numBytes || ! mReadInFlightFlag); the
\* reader, the request id and the offset are those of the replicator
InvalidCompletion(me, a) ==
    a.hasBuf /\ (a.size > me.mReadOp.numBytes \/ ~me.mReadInFlightFlag)

\* End of chunk only where the chunk size says so
EndOfChunkAtSizeOnly(me, inSize) ==
    me.mOffset + me.mReadTail + RSReadSize >= me.mChunkSize

\* const bool endOfChunk
EndOfChunk(me, inSize) ==
    \/ RSReadSize > inSize
    \/ me.mOffset + me.mReadTail + RSReadSize >= me.mChunkSize

\* RSReplicatorImpl::Done: the completion upcall of the RS reader.  a.hasBuf
\* is inBufferPtr != 0 and a.size the bytes it holds; the reader reports
\* the position it was asked to read at (readerPos).
Done(w, r, a) ==
    LET me == w.rep[r]
        inStatusCode == a.status
        inSize == a.size
        w0 == StRef(w, r)
    IN  IF InvalidCompletion(me, a)
        THEN Die(w0, "recovery: invalid read completion")
        ELSE IF me.mPendingCloseFlag
        THEN IF ~me.readerOpen
             THEN UnRef([w0 EXCEPT !.rep[r].mPendingCloseFlag = FALSE], r)
             ELSE w0
        ELSE IF ~me.mReadInFlightFlag
        THEN IF me.mReadOp.status >= 0 /\ inStatusCode < 0
             THEN [w0 EXCEPT !.rep[r].mReadOp.status = inStatusCode]
             ELSE w0
        ELSE
        LET w1 == [w0 EXCEPT !.rep[r].mReadInFlightFlag = FALSE]
        IN  IF me.mReadOp.status # 0 \/ (~a.hasBuf /\ inStatusCode = 0)
            THEN w1
            ELSE
            LET readOkFlag  == inStatusCode = 0 /\ a.hasBuf
                pendingSize == IF readOkFlag THEN me.mReadTail + inSize
                               ELSE 0
                endOfChunk  == EndOfChunk(me, inSize)
                nmv == ((me.mReadTail + inSize) \div CHECKSUM_BLOCKSIZE)
                           * CHECKSUM_BLOCKSIZE
                w2 == LogReadStatus(
                        [w1 EXCEPT !.rep[r].mReadOp.checksum = << >>,
                                   !.rep[r].mReadOp.status = inStatusCode],
                        r, inStatusCode)
                \* the buffers after the read was taken in
                eoc == [w2 EXCEPT
                          !.rep[r].mReadOp.dataBuf = me.mReadTail + inSize,
                          !.rep[r].mReadTail = 0,
                          !.rep[r].mReadOp.numBytes = me.mReadTail + inSize,
                          !.rep[r].mReadOp.numBytesIO = me.mReadTail + inSize,
                          !.rep[r].mChunkSize =
                              me.mOffset + me.mReadTail + inSize,
                          !.rep[r].readerOpen = w.x.active,
                          !.rep[r].mPendingCloseFlag = w.x.active,
                          !.rep[r].ref = @ + CloseRef(w.x.active)]
                mid == [w2 EXCEPT
                          !.rep[r].mReadOp.dataBuf = nmv,
                          !.rep[r].mReadTail = me.mReadTail + inSize - nmv,
                          !.rep[r].mReadOp.numBytes = nmv,
                          !.rep[r].mReadOp.numBytesIO = nmv]
                w3 == IF ~readOkFlag THEN w2
                      ELSE IF endOfChunk THEN eoc ELSE mid
                rd3 == w3.rep[r].mReadOp
                w4 == IF readOkFlag /\ 0 < rd3.numBytes /\ rd3.dataBuf # 0
                         /\ rd3.offset % CHECKSUM_BLOCKSIZE = 0
                         /\ rd3.numBytes % CHECKSUM_BLOCKSIZE = 0
                      THEN [w3 EXCEPT !.rep[r].mReadOp.checksum =
                                          ComputeChecksums(rd3.offset,
                                                           rd3.numBytes)]
                      ELSE w3
                \* StMutexLocker lock(mClientThreadPtr)
                w5 == [w4 EXCEPT !.locked = TRUE]
            IN  IF readOkFlag /\ ~endOfChunk /\ nmv <= 0
                THEN Call([w2 EXCEPT !.rep[r].mReadOp.dataBuf = 0,
                                     !.rep[r].mReadTail = @ + inSize],
                          "HandleRead", r, 0)
                ELSE IF readOkFlag
                        /\ ExceedsMaxRecover(w.maxRecover, me.mOffset,
                                             pendingSize)
                THEN Die(w5, "recovery: exceeds max recover chunk size")
                ELSE IF ~me.mOwner THEN w5
                ELSE IF me.readerPos # me.mOffset
                THEN Die(w5, "recovery: invalid read completion")
                ELSE
                LET w6 == IF ~readOkFlag /\ inStatusCode < 0 /\ a.hasBuf
                             /\ a.vals # << >>
                          THEN ReportInvalidStripes(w5, r, a.vals)
                          ELSE w5
                IN  Call(w6, "HandleCompletion", r, "read")

\* ------------------------------------------------------------------------
\* Entry points
\* ------------------------------------------------------------------------
\* Start() whatever the buffer manager answers
AdmitAlways(w, r) == VStart(w, r)

\* ReplicatorImpl::Run, after the registry: buffer admission
Admit(w, r) ==
    IF w.x.overQuota THEN Call(w, "Terminate", r, ENOMEM)
    ELSE IF w.x.granted THEN VStart(w, r)
    ELSE [w EXCEPT !.rep[r].waiting = TRUE]

\* The second insert without res.first->second = this: a stale entry
\* stays in place
RegKeepEarlier(reg, c, r) == RegInsert(reg, c, r)

\* The second insert of ReplicatorImpl::Run, after the other replicator
\* was cancelled
RegReinsert(reg, c, r) ==
    IF RegFind(reg, c) = {} THEN RegInsert(reg, c, r)
    ELSE RegAssign(reg, c, r)

\* ReplicatorImpl::Run, up to other.Cancel()
RunImpl(w, r) ==
    LET c     == w.rep[r].mChunkId
        found == RegFind(w.reg, c)
    IN  IF found = {}
        THEN Admit([w EXCEPT !.reg = RegInsert(@, c, r)], r)
        ELSE
        LET other == (CHOOSE e \in found : TRUE)[2]
        IN  IF other = r
            THEN Die(w, "invalid null entry or an attempt to restart")
            ELSE VCancel(Call(w, "Run (after Cancel)", r, 0), other)

\* ReplicatorImpl::Run, after other.Cancel()
RunRest(w, r) ==
    LET w1 == [w EXCEPT !.reg = RegReinsert(@, w.rep[r].mChunkId, r)]
    IN  IF w1.rep[r].mCancelFlag
        THEN Call(w1, "Terminate", r, ECANCELED)
        ELSE Admit(w1, r)

\* The effective target version CancelChunkReplication compares with
EffectiveTargetVersion(me, o) ==
    IF o.targetVersion < 0 THEN me.mChunkVersion ELSE o.targetVersion

CancelRefusedUnlessEqual(me, o, targetVersion) ==
    ~me.mOwner \/ EffectiveTargetVersion(me, o) # targetVersion

\* The condition under which CancelChunkReplication returns false for an
\* entry that exists
CancelRefused(me, o, targetVersion) ==
    0 <= targetVersion
        /\ (~me.mOwner \/ EffectiveTargetVersion(me, o) # targetVersion)

\* ReplicatorImpl::CancelChunkReplication; the result is in ret
CancelChunkReplication(w, c, targetVersion) ==
    LET found == RegFind(w.reg, c)
    IN  IF found = {} THEN [w EXCEPT !.ret = FALSE]
        ELSE
        LET cur == (CHOOSE e \in found : TRUE)[2]
        IN  IF CancelRefused(w.rep[cur], w.op[cur], targetVersion)
            THEN [w EXCEPT !.ret = FALSE]
            ELSE VCancel([w EXCEPT !.reg = RegErase(@, c), !.ret = TRUE],
                         cur)

\* ReplicatorImpl::CancelAll: the entries of the swapped-out map are
\* cancelled in key order
RECURSIVE CancelEach(_, _)
CancelEach(w, entries) ==
    IF entries = {} THEN w
    ELSE LET e == CHOOSE x \in entries :
                     \A y \in entries : y[1] <= x[1]
         IN  CancelEach(VCancel(w, e[2]), entries \ {e})

\* The sweep over the registry itself, without the swap
CancelAllInPlace(w) == CancelEach(w, w.reg)

CancelAllImpl(w) == CancelEach([w EXCEPT !.reg = {}], w.reg)

\* The two whitespace-separated tokens of op->chunkServerAccess, as
\* Replicator::Run scans them: << tokenLen, keyLen >>.  A character is
\* " " or a printable one.
RECURSIVE SkipSpace(_, _)
SkipSpace(str, p) ==
    IF p <= Len(str) /\ str[p] = " " THEN SkipSpace(str, p + 1) ELSE p

RECURSIVE SkipWord(_, _)
SkipWord(str, p) ==
    IF p <= Len(str) /\ str[p] # " " THEN SkipWord(str, p + 1) ELSE p

ParseAccess(str) ==
    LET token == SkipSpace(str, 1)
        tend  == SkipWord(str, token)
        key   == SkipSpace(str, tend)
        kend  == SkipWord(str, key)
    IN  << tend - token, kend - key >>

MalformedAccess(str) ==
    (0 < ParseAccess(str)[2]) # (0 < ParseAccess(str)[1])

\* new ReplicatorImpl / RSReplicatorImpl, then impl->Ref()
Construct(w, r, in) ==
    [w EXCEPT
        !.rep[r] = [ NoRep EXCEPT
                       !.obj = "live",
                       !.isRS = (in.kind # "direct"),
                       !.hasThread = (in.kind = "rst"),
                       !.mChunkId = in.chunkId,
                       !.mChunkVersion = in.chunkVersion,
                       !.mOwner = TRUE,
                       !.mLocationValid = in.metaLocOk,
                       !.ref = 1 ],
        !.ctrs.mReplicatorCount = @ + 1]

\* The test of the recovery parameters without CHUNKSIZE % stripeSize
InvalidRecoveryRequestAnyStripe(p) ==
    \/ p.chunkOffset < 0
    \/ p.chunkOffset % CHUNKSIZE # 0
    \/ p.striperType # KFS_STRIPED_FILE_TYPE_RS
    \/ p.numStripes <= 0
    \/ p.numRecoveryStripes <= 0
    \/ p.stripeSize < KFS_MIN_STRIPE_SIZE
    \/ p.stripeSize > KFS_MAX_STRIPE_SIZE
    \/ p.stripeSize % KFS_STRIPE_ALIGNMENT # 0
    \/ p.port <= 0

\* Replicator::Run: the test of the recovery parameters of the op
InvalidRecoveryRequest(p) ==
    \/ p.chunkOffset < 0
    \/ p.chunkOffset % CHUNKSIZE # 0
    \/ p.striperType # KFS_STRIPED_FILE_TYPE_RS
    \/ p.numStripes <= 0
    \/ p.numRecoveryStripes <= 0
    \/ p.stripeSize < KFS_MIN_STRIPE_SIZE
    \/ p.stripeSize > KFS_MAX_STRIPE_SIZE
    \/ CHUNKSIZE % p.stripeSize # 0
    \/ p.stripeSize % KFS_STRIPE_ALIGNMENT # 0
    \/ p.port <= 0

\* The request rejected at entry
Reject(w, r, status, msg) ==
    SubmitOpResponse(
        [ (IF w.op[r].locationValid
           THEN [w EXCEPT !.ctrs.mReplicationErrorCount = @ + 1]
           ELSE [w EXCEPT !.ctrs.mRecoveryErrorCount = @ + 1])
          EXCEPT !.op[r].status = status, !.op[r].statusMsg = msg ],
        r)

\* Replicator::Run.  in.kind is "direct" (op->location is valid), "rs"
\* (recovery on the global net manager) or "rst" (recovery with a client
\* thread); in.peerOk: the peer was found; in.params: the recovery
\* parameters of the op.
ReplicatorRun(w, r, in) ==
    LET direct == (in.kind = "direct")
        w0 == [w EXCEPT !.op[r] =
                  [ NoOp EXCEPT !.chunkId = in.chunkId,
                                !.chunkVersion = in.chunkVersion,
                                !.targetVersion = in.targetVersion,
                                !.locationValid = direct,
                                !.numStripes = in.params.numStripes,
                                !.numRecoveryStripes =
                                    in.params.numRecoveryStripes,
                                !.fileSize = in.params.fileSize ]]
        w1 == IF direct
              THEN [w0 EXCEPT !.ctrs.mReplicationCount = @ + 1]
              ELSE [w0 EXCEPT !.ctrs.mRecoveryCount = @ + 1]
    IN  IF MalformedAccess(in.access)
        THEN Reject(w0, r, -EINVAL, "malformed chunk access header value")
        ELSE IF direct /\ ~in.peerOk
        THEN Reject(w1, r, -EHOSTUNREACH, "")
        ELSE IF ~direct /\ InvalidRecoveryRequest(in.params)
        THEN Reject(w1, r, -EINVAL, "")
        ELSE Call(Construct(w1, r, in), "Run", r, 0)

\* ------------------------------------------------------------------------
\* The calls of one step
\* ------------------------------------------------------------------------
Dispatch(w, c) ==
    CASE w.rep[c.r].obj # "live" ->
                               Die(w, "call on a destroyed replicator")
      [] c.f = "Run"                     -> RunImpl(w, c.r)
      [] c.f = "Run (after Cancel)"      -> RunRest(w, c.r)
      [] c.f = "Terminate"               -> Terminate(w, c.r, c.a)
      [] c.f = "HandleReplicationDone"   -> HandleReplicationDone(w, c.r, c.a)
      [] c.f = "HandleStartDone"         -> HandleStartDone(w, c.r)
      [] c.f = "HandleReadDone"          -> HandleReadDone(w, c.r)
      [] c.f = "HandleWriteDone"         -> HandleWriteDone(w, c.r)
      [] c.f = "ReplicatorImpl::Read"    -> BaseRead(w, c.r)
      [] c.f = "ReplicatorImpl::Start"   -> BaseStart(w, c.r)
      [] c.f = "ReplicatorImpl::Cancel"  -> BaseCancel(w, c.r)
      [] c.f = "RSReplicatorImpl::Read"  -> RSRead(w, c.r)
      [] c.f = "RSReplicatorImpl::Start" -> RSStart(w, c.r)
      [] c.f = "RSReplicatorImpl::Cancel" -> RSCancel(w, c.r)
      [] c.f = "Enqueue"                 -> Enqueue(w, c.r, c.a)
      [] c.f = "Handle"                  -> Handle(w, c.r)
      [] c.f = "HandleStart"             -> HandleStart(w, c.r)
      [] c.f = "HandleRead"              -> HandleRead(w, c.r)
      [] c.f = "HandleCancel"            -> HandleCancel(w, c.r)
      [] c.f = "HandleCancel (after Cancel)" ->
                                            HandleCancelRest(w, c.r, c.a)
      [] c.f = "HandleCompletion"        -> HandleCompletion(w, c.r, c.a)
      [] c.f = "Done"                    -> Done(w, c.r, c.a)
      [] c.f = "UnRef"                   -> UnRef(w, c.r)

\* Run the calls until the step's handler has returned
RECURSIVE Exec(_)
Exec(w) ==
    IF Dead(w) \/ w.todo = << >> THEN w
    ELSE Exec(Dispatch([w EXCEPT !.todo = Tail(@)], Head(w.todo)))

\* ------------------------------------------------------------------------
\* Inputs and answers of the environment
\* ------------------------------------------------------------------------
AccessHeaders == { << >>, << "t" >>, << " ", "t", " ", "k" >> }

\* Recovery parameters that pass the test of Replicator::Run
GoodParams ==
    [ chunkOffset |-> CHUNKSIZE, striperType |-> KFS_STRIPED_FILE_TYPE_RS,
      numStripes |-> 2, numRecoveryStripes |-> 1,
      stripeSize |-> 2 * KFS_STRIPE_ALIGNMENT, port |-> 1,
      fileSize |-> 2 * CHUNKSIZE ]

\* The parameters of the requests of the runs: good, or with a stripe size
\* that does not divide CHUNKSIZE
RunParams ==
    { GoodParams,
      [ GoodParams EXCEPT !.stripeSize = 3 * KFS_STRIPE_ALIGNMENT ] }

\* Parameters that differ from the good ones in one field and break one
\* of the constraints of Replicator::Run
InvalidParams ==
    { [ GoodParams EXCEPT !.chunkOffset = v ] :
         v \in {-CHUNKSIZE, -1, 1, CHUNKSIZE \div 2, CHUNKSIZE + 1} }
    \cup { [ GoodParams EXCEPT !.striperType = v ] : v \in {"NONE"} }
    \cup { [ GoodParams EXCEPT !.numStripes = v ] : v \in {-1, 0} }
    \cup { [ GoodParams EXCEPT !.numRecoveryStripes = v ] : v \in {-1, 0} }
    \cup { [ GoodParams EXCEPT !.stripeSize = v ] :
              v \in { 0, KFS_MIN_STRIPE_SIZE - 1, KFS_MIN_STRIPE_SIZE + 1,
                      3 * KFS_STRIPE_ALIGNMENT,
                      KFS_MAX_STRIPE_SIZE + KFS_STRIPE_ALIGNMENT,
                      2 * KFS_MAX_STRIPE_SIZE } }
    \cup { [ GoodParams EXCEPT !.port = v ] : v \in {-1, 0} }

\* Parameters at the limits of the constraints
ValidParams ==
    { [ GoodParams EXCEPT !.chunkOffset = v ] :
         v \in {0, CHUNKSIZE, 2 * CHUNKSIZE} }
    \cup { [ GoodParams EXCEPT !.numStripes = 1 ],
            [ GoodParams EXCEPT !.numRecoveryStripes = 3 ] }
    \cup { [ GoodParams EXCEPT !.stripeSize = v ] :
              v \in {KFS_MIN_STRIPE_SIZE, KFS_MAX_STRIPE_SIZE} }

\* The requests: fields the request's mode does not read keep one value
RunInputs ==
    { in \in [ kind : {"direct", "rs", "rst"}, chunkId : ChunkIds,
               chunkVersion : OpVersions, targetVersion : TargetVersions,
               access : AccessHeaders, peerOk : BOOLEAN,
               params : RunParams, metaLocOk : BOOLEAN ] :
        /\ in.kind = "direct" => in.params = GoodParams /\ in.metaLocOk
        /\ in.kind # "direct" => in.peerOk
        /\ MalformedAccess(in.access) =>
               in.peerOk /\ in.params = GoodParams /\ in.metaLocOk }

\* The requests of the pre-emption runs
FirstInputs == { in \in RunInputs : in.targetVersion < 0 }

PreemptInputs ==
    { in \in FirstInputs :
         /\ in.kind = "direct"
         /\ \E e \in sInFlightReplications : e[1] = in.chunkId }

CancelVersions == {-1, 1, 2}

\* The error a synchronous call of the environment returns when it fails
FailCode(f) ==
    CASE f = "alloc" -> -EEXIST
      [] f = "open"  -> -EHOSTUNREACH
      [] OTHER       -> -EIO

\* Every call succeeds, or one of the calls fs fails
Answers(fs) ==
    {NoAnswers} \cup { [NoAnswers EXCEPT ![f] = FailCode(f)] : f \in fs }

\* The build: with or without assert()
Builds(x, asserts) ==
    IF asserts THEN { [x EXCEPT !.ndebug = nd] : nd \in BOOLEAN } ELSE {x}

\* ------------------------------------------------------------------------
\* Actions
\* ------------------------------------------------------------------------
Running == fatal = "none"

Live(r) == rep[r].obj = "live"

Inline(r) == rep[r].isRS /\ ~rep[r].hasThread

\* The reader's and the entry's own thread, for a recovery with a client
\* thread; the global net manager's thread (which holds the mutex) otherwise
OwnThread(w, r) ==
    IF w.rep[r].hasThread
    THEN [w EXCEPT !.cur = "client", !.locked = FALSE]
    ELSE w

Init ==
    /\ rep = [r \in Ops |-> NoRep]
    /\ op = [r \in Ops |-> NoOp]
    /\ sInFlightReplications = {}
    /\ store = [r \in Ops |-> NoStore]
    /\ peerLog = [r \in Ops |-> << >>]
    /\ sCounters = NoCounters
    /\ sReadSkipDiskVerifyFlag = TRUE
    /\ sRSReaderMaxRecoverChunkSize = CHUNKSIZE
    /\ sRSReaderPanicOnInvalidChunkFlag = FALSE
    /\ nextOp = 1
    /\ fatal = "none"
    /\ threadCount = 0
    /\ clientQuota = 4 * CHUNKSIZE
    /\ sLastIdx = -1
    /\ sMaxCount = 0
    /\ sMaxRecoveryThreads = 16
    /\ sRSReaderMaxReadSize = kDefaultReplicationReadSize
    /\ sAuthUpdateCount = 0
    /\ sAuthParams = [ keyId |-> "", key |-> "" ]
    /\ sMetaServersAuth = << >>
    /\ made = << >>

\* Replicator::SetParameters, before the first request
SetParameters ==
    /\ Running
    /\ nextOp = 1
    /\ \E p \in ParameterSets :
          Commit([World EXCEPT !.skipFlag = p.skip,
                               !.maxRecover = p.maxRecover,
                               !.panic = p.panic])
    /\ UNCHANGED nextOp

\* Replicator::Run(op), for a request drawn from inputs
RunFrom(inputs) ==
    /\ nextOp' = nextOp + 1
    /\ \E in \in inputs, q \in {"over", "now", "wait"} :
       \E x0 \in IF in.kind = "rs" /\ q = "now"
                 THEN Answers({"open", "alloc", "rsync"})
                 ELSE {NoAnswers} :
       \E x \in Builds(x0, \E e \in sInFlightReplications :
                              e[1] = in.chunkId /\ rep[e[2]].isRS) :
          Commit(Exec(ReplicatorRun(
                    [World EXCEPT !.x = [x EXCEPT !.overQuota = (q = "over"),
                                                  !.granted = (q = "now")]],
                    nextOp, in)))

RunOp ==
    /\ Running
    /\ nextOp <= MaxOps
    /\ RunFrom(RunInputs)

\* A first request, then requests for a chunk whose replication is in
\* flight
RunPreempt ==
    /\ Running
    /\ nextOp <= MaxOps + MaxPreempt
    /\ RunFrom(IF nextOp = 1 THEN FirstInputs ELSE PreemptInputs)

\* Replicator::Cancel(chunkId, targetVersion)
CancelOp ==
    /\ Running
    /\ nextOp > 1
    /\ \E c \in ChunkIds, v \in CancelVersions :
       \E x \in Builds(NoAnswers, \E e \in sInFlightReplications :
                                     e[1] = c /\ rep[e[2]].isRS) :
          Commit(Exec(CancelChunkReplication([World EXCEPT !.x = x], c, v)))
    /\ UNCHANGED nextOp

\* Replicator::CancelAll()
CancelAllOp ==
    /\ Running
    /\ sInFlightReplications # {}
    /\ \E x \in Builds(NoAnswers, \E e \in sInFlightReplications :
                                     rep[e[2]].isRS) :
          Commit(Exec(CancelAllImpl([World EXCEPT !.x = x])))
    /\ UNCHANGED nextOp

\* BufferManager: the queued request is granted
Granted(r) ==
    /\ Running
    /\ Live(r)
    /\ rep[r].waiting
    /\ \E x \in IF Inline(r) THEN Answers({"open", "alloc", "rsync"})
                ELSE {NoAnswers} :
          Commit(Exec(VStart([World EXCEPT !.x = x,
                                          !.rep[r].waiting = FALSE], r)))
    /\ UNCHANGED nextOp

\* The size request of r completes with m: the peer's answer is in
\* mChunkMetadataOp when HandleStartDone is called
DeliverSize(w, r, m) ==
    Exec(Call([w EXCEPT !.rep[r].pend = "none",
                        !.rep[r].mChunkMetadataOp = m],
              "HandleStartDone", r, 0))

\* The peer answers the size request (GetChunkMetadataOp)
PeerSizeDone(r) ==
    /\ Running
    /\ Live(r)
    /\ rep[r].pend = "size"
    /\ \E m \in MetaAnswers :
       \E x \in IF m.status < 0 \/ m.chunkSize < 0 \/ m.chunkSize > CHUNKSIZE
                THEN {NoAnswers}
                ELSE IF m.chunkSize = 0 THEN Answers({"alloc", "vers"})
                ELSE Answers({"alloc"}) :
          Commit(DeliverSize([World EXCEPT !.x = x], r, m))
    /\ UNCHANGED nextOp

\* The read of r completes with a: the peer's answer is in mReadOp when
\* HandleReadDone is called
DeliverRead(w, r, a) ==
    Exec(Call(LogReadStatus(
                 [w EXCEPT !.rep[r].pend = "none",
                           !.rep[r].mReadOp.status = a.status,
                           !.rep[r].mReadOp.dataBuf = a.numRd,
                           !.rep[r].mReadOp.numBytesIO = a.numRd,
                           !.rep[r].mReadOp.checksum =
                              BlockChecksums(w.rep[r].mReadOp.offset,
                                             a.cks)],
                 r, a.status),
              "HandleReadDone", r, 0))

\* The peer answers the read (ReadOp): numRd bytes and cks checksums
PeerReadDone(r) ==
    /\ Running
    /\ Live(r)
    /\ rep[r].pend = "read"
    /\ \E a \in ReadAnswers(rep[r].mReadOp.numBytes) :
       \E x \in IF a.status < 0 THEN {NoAnswers} ELSE Answers({"wsync"}) :
          Commit(DeliverRead([World EXCEPT !.x = x], r, a))
    /\ UNCHANGED nextOp

\* The write of r completes with status: all of mWriteOp.numBytes were
\* written, or none
DeliverWrite(w, r, status) ==
    Exec(Call([w EXCEPT !.rep[r].pend = "none",
                        !.rep[r].mWriteOp.status = status,
                        !.rep[r].mWriteOp.numBytesIO =
                           IF status < 0 THEN 0
                           ELSE w.rep[r].mWriteOp.numBytes],
              "HandleWriteDone", r, 0))

\* The chunk manager completes the write
DiskWriteDone(r) ==
    /\ Running
    /\ Live(r)
    /\ rep[r].pend = "write"
    /\ \E status \in {0, -EIO} :
       \E x \in IF status < 0 THEN {NoAnswers}
                ELSE IF Inline(r) THEN Answers({"wsync", "vers", "rsync"})
                ELSE Answers({"wsync", "vers"}) :
          Commit(DeliverWrite([World EXCEPT !.x = x], r, status))
    /\ UNCHANGED nextOp

\* The chunk manager completes ChangeChunkVers
ChangeChunkVersDone(r) ==
    /\ Running
    /\ Live(r)
    /\ rep[r].pend = "vers"
    /\ \E status \in {0, -EIO} :
          Commit(Exec(Call([World EXCEPT !.rep[r].pend = "none"],
                           "HandleReplicationDone", r, status)))
    /\ UNCHANGED nextOp

\* The arguments of Done for answer a of the reader: a buffer comes with
\* status 0
ReaderArg(a) ==
    [ status |-> a.status, hasBuf |-> a.status = 0 \/ a.vals # << >>,
      size |-> a.size, vals |-> a.vals ]

\* The world in which the reader makes the upcall for the read in flight
ReaderWorld(w, r) == OwnThread([w EXCEPT !.rep[r].readerReq = FALSE], r)

\* The upcall of the RS reader for the read in flight, with answer a
ReaderUpcall(w, r, a) == Call(ReaderWorld(w, r), "Done", r, ReaderArg(a))

DeliverReader(w, r, a) == Exec(ReaderUpcall(w, r, a))

\* The RS reader completes the read in flight
ReaderDone(r) ==
    /\ Running
    /\ Live(r)
    /\ rep[r].readerReq
    /\ rep[r].step = "none"
    /\ \E a \in ReaderAnswers :
       \E x0 \in IF a.status < 0 THEN {NoAnswers}
                 ELSE Answers({"wsync", "vers"}) :
       \E act \in BOOLEAN :
          Commit(DeliverReader([World EXCEPT !.x = [x0 EXCEPT !.active = act]],
                               r, a))
    /\ UNCHANGED nextOp

\* The RS reader reports an error while no read is in flight
ReaderError(r) ==
    /\ Running
    /\ Live(r)
    /\ rep[r].readerOpen
    /\ ~rep[r].readerReq
    /\ ~rep[r].mPendingCloseFlag
    /\ rep[r].step = "none"
    /\ rep[r].mReadOp.status >= 0
    /\ Commit(Exec(Call(OwnThread(World, r), "Done", r,
                         [ status |-> -EIO, hasBuf |-> FALSE, size |-> 0,
                           vals |-> << >> ])))
    /\ UNCHANGED nextOp

\* The upcall of the RS reader once it is no longer active
DeliverClosed(w, r) ==
    Exec(Call(OwnThread([w EXCEPT !.rep[r].readerOpen = FALSE], r),
              "Done", r,
              [ status |-> 0, hasBuf |-> FALSE, size |-> 0,
                vals |-> << >> ]))

\* The RS reader has closed
ReaderClosed(r) ==
    /\ Running
    /\ Live(r)
    /\ rep[r].readerOpen
    /\ rep[r].mPendingCloseFlag
    /\ rep[r].step = "none"
    /\ Commit(DeliverClosed(World, r))
    /\ UNCHANGED nextOp

\* The client thread takes the entry off its queue
ThreadDequeue(r) ==
    /\ Running
    /\ rep[r].queued
    /\ rep[r].step = "none"
    /\ Commit([World EXCEPT !.rep[r].queued = FALSE,
                            !.rep[r].step = "deq"])
    /\ UNCHANGED nextOp

\* The client thread calls Handle() of the entry it took
ThreadHandle(r) ==
    /\ Running
    /\ rep[r].step = "deq"
    /\ \E x0 \in Answers({"open", "rsync"}) :
       \E x \in Builds(x0, rep[r].mPendingCancelFlag) :
          Commit(IF Live(r)
                 THEN Exec(Call(
                        OwnThread([World EXCEPT !.x = x,
                                                !.rep[r].step = "none"], r),
                        "Handle", r, 0))
                 ELSE Die(World, "Handle() of a destroyed replicator"))
    /\ UNCHANGED nextOp

\* The client thread has the mutex and calls HandleCompletion
ThreadFinish(r) ==
    /\ Running
    /\ Live(r)
    /\ rep[r].step \in {"meta", "read"}
    /\ \E x \in IF rep[r].step = "meta" THEN Answers({"alloc", "rsync"})
                ELSE Answers({"wsync", "vers"}) :
          Commit(Exec(Call(
                    [World EXCEPT !.x = x, !.cur = "client",
                                  !.rep[r].step = "none"],
                    "HandleCompletion", r, rep[r].step)))
    /\ UNCHANGED nextOp

Next ==
    \/ SetParameters
    \/ RunOp
    \/ CancelOp
    \/ CancelAllOp
    \/ \E r \in Ops : Granted(r)
    \/ \E r \in Ops : PeerSizeDone(r)
    \/ \E r \in Ops : PeerReadDone(r)
    \/ \E r \in Ops : DiskWriteDone(r)
    \/ \E r \in Ops : ChangeChunkVersDone(r)
    \/ \E r \in Ops : ReaderDone(r)
    \/ \E r \in Ops : ReaderError(r)
    \/ \E r \in Ops : ReaderClosed(r)
    \/ \E r \in Ops : ThreadDequeue(r)
    \/ \E r \in Ops : ThreadHandle(r)
    \/ \E r \in Ops : ThreadFinish(r)

Spec == Init /\ [][Next]_vars

\* Runs in which a request pre-empts the replication in flight, under the
\* default parameters
NextPreempt ==
    \/ RunPreempt
    \/ CancelOp
    \/ CancelAllOp
    \/ \E r \in Ops : Granted(r)
    \/ \E r \in Ops : PeerSizeDone(r)
    \/ \E r \in Ops : PeerReadDone(r)
    \/ \E r \in Ops : DiskWriteDone(r)
    \/ \E r \in Ops : ChangeChunkVersDone(r)
    \/ \E r \in Ops : ReaderDone(r)
    \/ \E r \in Ops : ReaderError(r)
    \/ \E r \in Ops : ReaderClosed(r)
    \/ \E r \in Ops : ThreadDequeue(r)
    \/ \E r \in Ops : ThreadHandle(r)
    \/ \E r \in Ops : ThreadFinish(r)

SpecPreempt == Init /\ [][NextPreempt]_vars

\* A request for a chunk that has no registered replicator: another chunk
\* while a direct replication is registered, or the chunk of a replicator
\* that was cancelled and unregistered but still waits for a completion
SweptInputs ==
    { in \in [ kind : {"direct"}, chunkId : 1..(MaxChunkId + 1),
               chunkVersion : OpVersions, targetVersion : {-1},
               access : {<< >>}, peerOk : {TRUE}, params : {GoodParams},
               metaLocOk : {TRUE} ] :
         /\ RegFind(sInFlightReplications, in.chunkId) = {}
         /\ IF in.chunkId > MaxChunkId
            THEN \E e \in sInFlightReplications : ~rep[e[2]].isRS
            ELSE \E r \in Ops : /\ rep[r].obj = "live"
                                /\ rep[r].mChunkId = in.chunkId
                                /\ rep[r].cancelled # "no" }

RunSwept ==
    /\ Running
    /\ nextOp <= MaxOps + MaxPreempt
    /\ RunFrom(IF nextOp = 1 THEN FirstInputs ELSE SweptInputs)

\* Runs in which a request arrives after CancelAll, while the replicator
\* CancelAll cancelled is still alive
NextSwept ==
    \/ RunSwept
    \/ CancelAllOp
    \/ \E r \in Ops : Granted(r)
    \/ \E r \in Ops : PeerSizeDone(r)
    \/ \E r \in Ops : PeerReadDone(r)
    \/ \E r \in Ops : DiskWriteDone(r)
    \/ \E r \in Ops : ChangeChunkVersDone(r)
    \/ \E r \in Ops : ReaderDone(r)
    \/ \E r \in Ops : ReaderError(r)
    \/ \E r \in Ops : ReaderClosed(r)
    \/ \E r \in Ops : ThreadDequeue(r)
    \/ \E r \in Ops : ThreadHandle(r)
    \/ \E r \in Ops : ThreadFinish(r)

SpecSwept == Init /\ [][NextSwept]_vars

\* Recovery requests whose parameters break a constraint
InvalidInputs ==
    [ kind : {"rs", "rst"}, chunkId : ChunkIds,
      chunkVersion : OpVersions, targetVersion : {-1},
      access : { << >>, << "t", " ", "k" >> }, peerOk : {TRUE},
      params : InvalidParams, metaLocOk : BOOLEAN ]

\* Recovery requests with parameters at the limits of the constraints
LimitInputs ==
    [ kind : {"rs", "rst"}, chunkId : ChunkIds,
      chunkVersion : OpVersions, targetVersion : {-1},
      access : { << >> }, peerOk : {TRUE},
      params : ValidParams, metaLocOk : {TRUE} ]

RunInvalid ==
    /\ Running
    /\ nextOp <= MaxOps + MaxPreempt
    /\ RunFrom(IF nextOp = 1 THEN FirstInputs ELSE InvalidInputs)

\* Runs in which a recovery request with invalid parameters arrives after
\* the first request
NextRejected ==
    \/ RunInvalid
    \/ CancelOp
    \/ CancelAllOp
    \/ \E r \in Ops : Granted(r)
    \/ \E r \in Ops : PeerSizeDone(r)
    \/ \E r \in Ops : PeerReadDone(r)
    \/ \E r \in Ops : DiskWriteDone(r)
    \/ \E r \in Ops : ChangeChunkVersDone(r)
    \/ \E r \in Ops : ReaderDone(r)
    \/ \E r \in Ops : ReaderError(r)
    \/ \E r \in Ops : ReaderClosed(r)
    \/ \E r \in Ops : ThreadDequeue(r)
    \/ \E r \in Ops : ThreadHandle(r)
    \/ \E r \in Ops : ThreadFinish(r)

SpecRejected == Init /\ [][NextRejected]_vars

\* ------------------------------------------------------------------------
\* RSReplicatorImpl::Create: the meta server slots, the credentials and the
\* read size of a recovery replicator
\* ------------------------------------------------------------------------
\* The runs above take the outcome of Create as an input of the request
\* (kind "rs": slot 0, no client thread; kind "rst": a slot with a client
\* thread).  Here Create, the constructor, the credentials part of
\* HandleStart and Shutdown are modelled on their own statics; made is the
\* sequence of the replicators created, each with the credentials of its op.
MaxCreate == 3
MaxThreadCount == 2
MaxAuthUpdates == 4

\* IOBufferData::GetDefaultBufferSize(), scaled: CHECKSUM_BLOCKSIZE is a
\* multiple of it
kIoBufferSize == 1
kDefaultMaxRecoveryThreads == 16

RECURSIVE GetGcd(_, _)
GetGcd(nl, nr) == IF nr = 0 THEN nl ELSE GetGcd(nr, nl % nr)

GetLcm(nl, nr) ==
    IF nl = 0 \/ nr = 0 THEN 0 ELSE (nl \div GetGcd(nl, nr)) * nr

\* The assertion of GetReadSize
ReadSizeAsserts(maxReadSize, stripeSize) ==
    /\ maxReadSize >= CHECKSUM_BLOCKSIZE
    /\ stripeSize > 0
    /\ maxReadSize % CHECKSUM_BLOCKSIZE = 0
    /\ CHECKSUM_BLOCKSIZE % kIoBufferSize = 0

\* The share of the client quota, not rounded to checksum blocks
QuotaShareUnrounded(quota, numStripes) ==
    quota \div Max(1, numStripes + 1)

\* GetMaxClientQuota() / max(1, numStripes + 1)
\*     / kChecksumBlockSize * kChecksumBlockSize
QuotaShare(quota, numStripes) ==
    ((quota \div Max(1, numStripes + 1)) \div CHECKSUM_BLOCKSIZE)
        * CHECKSUM_BLOCKSIZE

\* size / lcm * lcm, or lcm when no multiple of it fits
StripeAligned(size, stripeSize) ==
    LET lcm1 == GetLcm(CHECKSUM_BLOCKSIZE, stripeSize)
        lcm2 == GetLcm(kIoBufferSize, stripeSize)
    IN  IF lcm1 > size
        THEN IF lcm2 > size THEN lcm2 ELSE (size \div lcm2) * lcm2
        ELSE (size \div lcm1) * lcm1

\* RSReplicatorImpl::GetReadSize; quota is
\* DiskIo::GetBufferManager().GetMaxClientQuota()
GetReadSize(maxReadSize, quota, numStripes, stripeSize) ==
    LET size == Max(CHECKSUM_BLOCKSIZE,
                    Min(maxReadSize, QuotaShare(quota, numStripes)))
    IN  IF size <= stripeSize THEN size
        ELSE StripeAligned(size, stripeSize)

\* sRSReaderMaxReadSize as SetParameters stores the property value v
RoundedMaxReadSize(v) ==
    ((Max(1, v) + CHECKSUM_BLOCKSIZE - 1) \div CHECKSUM_BLOCKSIZE)
        * CHECKSUM_BLOCKSIZE

\* (sMaxCount <= 1 || sMaxRecoveryThreads <= 0) ? 0 : 1
WrapIdx(maxCount, maxThreads) ==
    IF maxCount <= 1 \/ maxThreads <= 0 THEN 0 ELSE 1

\* The slot index without the wrap
NextIdxNoWrap(lastIdx, maxCount, maxThreads) ==
    (IF lastIdx < 0 THEN 0 ELSE lastIdx) + 1

\* GetMetaserver with an op: the new value of sLastIdx
NextIdx(lastIdx, maxCount, maxThreads) ==
    LET idx == (IF lastIdx < 0 THEN 0 ELSE lastIdx) + 1
    IN  IF Min(maxThreads, maxCount) <= idx
        THEN WrapIdx(maxCount, maxThreads)
        ELSE idx

\* MetaServers::Entry of the pool with authentication: the counter, the
\* context KfsNetClient::GetAuthContext() returns (set: it is mAuth) and
\* the parameters the context was last given
NoEntry == [ mAuthUpdateCount |-> 0, ctx |-> TRUE, params |-> << >> ]

NoAuthParams == [ keyId |-> "", key |-> "" ]

\* The credentials of an op: none, or a token and a key
Credentials ==
    { [ token |-> "", key |-> "" ], [ token |-> "t1", key |-> "k1" ],
      [ token |-> "t2", key |-> "k1" ] }

\* chunkServer.rsReader.* properties handed to SetParameters: auth is the
\* number of properties with the prefix chunkServer.rsReader.auth.
RecoveryParameterSets ==
    { [ maxRecoveryThreads |-> m, maxReadSize |-> kReadSizeBase,
        auth |-> 0 ] : m \in {-1, 0, 1, 2} }
    \cup { [ maxRecoveryThreads |-> kDefaultMaxRecoveryThreads,
              maxReadSize |-> kReadSizeBase, auth |-> a ] : a \in {0, 1} }

\* The same with every value of chunkServer.rsReader.maxReadSize
ReadSizeParameterSets ==
    { [ maxRecoveryThreads |-> kDefaultMaxRecoveryThreads,
        maxReadSize |-> v, auth |-> 0 ] : v \in -1..(2 * CHUNKSIZE + 1) }

\* The ops handed to Create: stripe sizes that pass the test of
\* Replicator::Run, and 1 for the stripe sizes below the checksum block
\* that pass it at full scale
CreateStripeSizes == { s \in 1..KFS_MAX_STRIPE_SIZE : CHUNKSIZE % s = 0 }

CreateNumStripes == 1..3

ClientQuotas == 0..(4 * CHUNKSIZE)

statics ==
    << threadCount, clientQuota, sLastIdx, sMaxCount, sMaxRecoveryThreads,
       sRSReaderMaxReadSize, sAuthUpdateCount, sAuthParams,
       sMetaServersAuth, made >>

InitStatics ==
    /\ sLastIdx = -1
    /\ sMaxCount = 0
    /\ sMaxRecoveryThreads = kDefaultMaxRecoveryThreads
    /\ sRSReaderMaxReadSize = kDefaultReplicationReadSize
    /\ sAuthUpdateCount = 0
    /\ sAuthParams = NoAuthParams
    /\ sMetaServersAuth = << >>
    /\ made = << >>

\* The ReplicatorImpl part of the state does not change
ProgramUnchanged ==
    UNCHANGED << rep, op, sInFlightReplications, store, peerLog, sCounters,
                 sReadSkipDiskVerifyFlag, sRSReaderMaxRecoverChunkSize,
                 sRSReaderPanicOnInvalidChunkFlag, nextOp >>

\* RSReplicatorImpl::SetParameters
SetParametersFrom(sets) ==
    /\ Running
    /\ \E p \in sets :
          /\ p.auth > 0 => sAuthUpdateCount < MaxAuthUpdates
          /\ sMaxRecoveryThreads' = p.maxRecoveryThreads
          /\ sRSReaderMaxReadSize' = RoundedMaxReadSize(p.maxReadSize)
          /\ sAuthUpdateCount' =
                IF 0 < p.auth THEN sAuthUpdateCount + 1
                ELSE sAuthUpdateCount
    /\ UNCHANGED << threadCount, clientQuota, sLastIdx, sMaxCount,
                    sAuthParams, sMetaServersAuth, made, fatal >>
    /\ ProgramUnchanged

\* The credentials part of Create: sAuthParams and sAuthUpdateCount after
\* the token and the key of the op were compared with the stored ones
StoreCredentials(params, count, c) ==
    LET p1 == IF params.keyId # c.token
              THEN [ params |-> [params EXCEPT !.keyId = c.token],
                     count |-> count + 1 ]
              ELSE [ params |-> params, count |-> count ]
    IN  IF p1.params.key # c.key
        THEN [ params |-> [p1.params EXCEPT !.key = c.key],
               count |-> p1.count + 1 ]
        ELSE p1

\* (authFlag && entry->mAuthUpdateCount != sAuthUpdateCount) ?
\*     &entry->mAuthUpdateCount : 0
HandCounter(authFlag, entryCount, count) ==
    authFlag /\ entryCount # count

\* RSReplicatorImpl::Create(op, token, key), with GetMetaserver and the
\* constructor of the replicator
CreateFrom(max, creds, sizes, stripes) ==
    /\ Running
    /\ Len(made) < max
    /\ \E c \in creds, s \in sizes, n \in stripes :
          LET authFlag == c.token # "" /\ c.key # ""
              cred == IF authFlag
                      THEN StoreCredentials(sAuthParams, sAuthUpdateCount, c)
                      ELSE [ params |-> sAuthParams,
                             count |-> sAuthUpdateCount ]
              \* static const sMaxCount, sMetaServers, sMetaServersAuth
              maxCount == IF sMaxCount = 0 THEN Max(0, threadCount) + 1
                          ELSE sMaxCount
              servers == IF sMaxCount = 0
                         THEN [ i \in 0..(maxCount - 1) |-> NoEntry ]
                         ELSE sMetaServersAuth
              idx == NextIdx(sLastIdx, maxCount, sMaxRecoveryThreads)
              valid == idx \in DOMAIN servers
              bad == \/ ~valid
                     \/ authFlag /\ ~servers[idx].ctx
          IN  /\ cred.count <= MaxAuthUpdates
              /\ sAuthParams' = cred.params
              /\ sAuthUpdateCount' = cred.count
              /\ sMaxCount' = maxCount
              /\ sMetaServersAuth' = servers
              /\ sLastIdx' = idx
              /\ IF bad
                 THEN /\ fatal' = "recovery: invalid meta server entry"
                      /\ made' = Append(made,
                            [ idx |-> idx, auth |-> authFlag, ptr |-> FALSE,
                              mReadSize |-> 0, state |-> "none",
                              cred |-> c ])
                 ELSE IF ~ReadSizeAsserts(sRSReaderMaxReadSize, s)
                 THEN /\ fatal' = "assert: GetReadSize"
                      /\ UNCHANGED made
                 ELSE /\ UNCHANGED fatal
                      /\ made' = Append(made,
                            [ idx |-> idx, auth |-> authFlag,
                              ptr |-> HandCounter(
                                         authFlag,
                                         servers[idx].mAuthUpdateCount,
                                         cred.count),
                              mReadSize |-> GetReadSize(
                                         sRSReaderMaxReadSize, clientQuota,
                                         n, s),
                              state |-> "new", cred |-> c ])
    /\ UNCHANGED << threadCount, clientQuota, sMaxRecoveryThreads,
                    sRSReaderMaxReadSize >>
    /\ ProgramUnchanged

\* The credentials part of RSReplicatorImpl::HandleStart of replicator i
StartStep(i) ==
    /\ Running
    /\ i \in 1..Len(made)
    /\ made[i].state = "new"
    /\ made' = [made EXCEPT ![i].state = "started"]
    /\ LET e == sMetaServersAuth[made[i].idx]
       IN  IF ~made[i].ptr
           THEN UNCHANGED << sMetaServersAuth, fatal >>
           ELSE IF ~e.ctx
           THEN /\ fatal' = "recovery: invalid null authentication context"
                /\ UNCHANGED sMetaServersAuth
           ELSE /\ UNCHANGED fatal
                /\ sMetaServersAuth' =
                      IF e.mAuthUpdateCount # sAuthUpdateCount
                      THEN [sMetaServersAuth EXCEPT
                              ![made[i].idx] =
                                 [ mAuthUpdateCount |-> sAuthUpdateCount,
                                   ctx |-> TRUE,
                                   params |-> << sAuthParams >> ]]
                      ELSE sMetaServersAuth
    /\ UNCHANGED << threadCount, clientQuota, sLastIdx, sMaxCount,
                    sMaxRecoveryThreads, sRSReaderMaxReadSize,
                    sAuthUpdateCount, sAuthParams >>
    /\ ProgramUnchanged

\* RSReplicatorImpl::Shutdown: CancelAll, then GetMetaserver without op
ShutdownOp ==
    /\ Running
    /\ made' = [ i \in 1..Len(made) |->
                   IF made[i].state = "new"
                   THEN [made[i] EXCEPT !.state = "cancelled"]
                   ELSE made[i] ]
    /\ IF sLastIdx < 0
       THEN UNCHANGED << sLastIdx, sMetaServersAuth >>
       ELSE /\ sLastIdx' = -1
            /\ sMetaServersAuth' =
                  [ i \in DOMAIN sMetaServersAuth |->
                      [sMetaServersAuth[i] EXCEPT !.ctx = FALSE,
                                                  !.params = << >>] ]
    /\ UNCHANGED << threadCount, clientQuota, sMaxCount,
                    sMaxRecoveryThreads, sRSReaderMaxReadSize,
                    sAuthUpdateCount, sAuthParams, fatal >>
    /\ ProgramUnchanged

InitCreate ==
    /\ rep = [r \in Ops |-> NoRep]
    /\ op = [r \in Ops |-> NoOp]
    /\ sInFlightReplications = {}
    /\ store = [r \in Ops |-> NoStore]
    /\ peerLog = [r \in Ops |-> << >>]
    /\ sCounters = NoCounters
    /\ sReadSkipDiskVerifyFlag = TRUE
    /\ sRSReaderMaxRecoverChunkSize = CHUNKSIZE
    /\ sRSReaderPanicOnInvalidChunkFlag = FALSE
    /\ nextOp = 1
    /\ fatal = "none"
    /\ threadCount \in -1..MaxThreadCount
    /\ clientQuota = 4 * CHUNKSIZE
    /\ InitStatics

SetRecoveryParameters == SetParametersFrom(RecoveryParameterSets)

Create ==
    CreateFrom(MaxCreate, Credentials, {GoodParams.stripeSize},
               {GoodParams.numStripes})

NextCreate ==
    \/ SetRecoveryParameters
    \/ Create
    \/ \E i \in 1..MaxCreate : StartStep(i)
    \/ ShutdownOp

SpecCreate == InitCreate /\ [][NextCreate]_vars

\* GetReadSize on its own: every rounded maximal read size, every client
\* quota, and one replicator constructed for an op
InitReadSize ==
    /\ rep = [r \in Ops |-> NoRep]
    /\ op = [r \in Ops |-> NoOp]
    /\ sInFlightReplications = {}
    /\ store = [r \in Ops |-> NoStore]
    /\ peerLog = [r \in Ops |-> << >>]
    /\ sCounters = NoCounters
    /\ sReadSkipDiskVerifyFlag = TRUE
    /\ sRSReaderMaxRecoverChunkSize = CHUNKSIZE
    /\ sRSReaderPanicOnInvalidChunkFlag = FALSE
    /\ nextOp = 1
    /\ fatal = "none"
    /\ threadCount = 0
    /\ clientQuota \in ClientQuotas
    /\ InitStatics

SetReadSizeParameters ==
    /\ made = << >>
    /\ SetParametersFrom(ReadSizeParameterSets)

CreateForReadSize ==
    CreateFrom(1, {[ token |-> "", key |-> "" ]}, CreateStripeSizes,
               CreateNumStripes)

NextReadSize ==
    \/ SetReadSizeParameters
    \/ CreateForReadSize

SpecReadSize == InitReadSize /\ [][NextReadSize]_vars

\* ------------------------------------------------------------------------
\* Properties
\* ------------------------------------------------------------------------
\* A buffer grant, an I/O completion, a reader completion or a step of the
\* client thread is still to be delivered to replicator r
Pending(r) ==
    \/ rep[r].waiting
    \/ rep[r].pend # "none"
    \/ rep[r].readerReq
    \/ rep[r].queued
    \/ rep[r].step # "none"
    \/ (rep[r].readerOpen /\ rep[r].mPendingCloseFlag)

\* C1: every op handed to Replicator::Run is answered by SubmitOpResponse
\* exactly once: never twice, and once when no buffer grant and no
\* completion is left to be delivered for it.
C1_SubmittedExactlyOnce ==
    \A r \in Ops :
        r < nextOp /\ Running =>
            /\ op[r].submitted <= 1
            /\ ~Pending(r) => op[r].submitted = 1

\* The registry holds at most one replicator per chunkId
OnePerChunk ==
    \A e1 \in sInFlightReplications : \A e2 \in sInFlightReplications :
        e1[1] = e2[1] => e1 = e2

\* This step is a Replicator::Run that reaches ReplicatorImpl::Run for a
\* chunkId that has a registered replicator
Preempts ==
    /\ nextOp' = nextOp + 1
    /\ rep'[nextOp].obj # "none"
    /\ RegFind(sInFlightReplications, op'[nextOp].chunkId) # {}

\* C2, as claimed: at most one replicator per chunkId is registered, and
\* when ReplicatorImpl::Run is called for a chunkId that has a registered
\* replicator, that one is cancelled and the entry refers to the new
\* replicator when Run returns.
C2_NewReplicatorRegistered ==
    /\ []OnePerChunk
    /\ [][Preempts =>
            \A e \in RegFind(sInFlightReplications, op'[nextOp].chunkId) :
                /\ rep'[e[2]].cancelled # "no"
                /\ << e[1], nextOp >> \in sInFlightReplications']_vars

\* C2, amended: at most one replicator per chunkId is registered, and when
\* ReplicatorImpl::Run is called for a chunkId that has a registered
\* replicator, that one is cancelled and never stays registered: when Run
\* returns the entry refers to the new replicator, or the new replicator
\* has terminated inside Run and the chunkId has no entry.
C2_EarlierReplicatorReplaced ==
    /\ []OnePerChunk
    /\ [][Preempts =>
            \A e \in RegFind(sInFlightReplications, op'[nextOp].chunkId) :
                /\ rep'[e[2]].cancelled # "no"
                /\ e \notin sInFlightReplications'
                /\ \/ << e[1], nextOp >> \in sInFlightReplications'
                   \/ /\ RegFind(sInFlightReplications', e[1]) = {}
                      /\ op'[nextOp].submitted = 1]_vars

C2_Witness ==
    \E r \in Ops : \E s \in Ops :
        /\ r < s
        /\ rep[r].cancelled # "no"
        /\ rep[s].obj = "live"
        /\ << rep[s].mChunkId, s >> \in sInFlightReplications
        /\ op[r].chunkId = op[s].chunkId

\* The writes start at 0, leave no gap, do not overlap and end at size
WritesCover(ws, size) ==
    /\ \A i \in 1..Len(ws) :
          /\ ws[i].numBytes > 0
          /\ ws[i].offset =
                IF i = 1 THEN 0 ELSE ws[i - 1].offset + ws[i - 1].numBytes
    /\ size = IF ws = << >> THEN 0
              ELSE ws[Len(ws)].offset + ws[Len(ws)].numBytes

\* C3: when a replication completes with op.status = 0, the writes handed
\* to the chunk store cover [0, chunkSize) of the final chunk size without
\* gap or overlap, at strictly increasing offsets, so that the bytes
\* written sum to the chunk size.
C3_WritesCoverChunk ==
    [][\A r \in Ops :
          op[r].submitted = 0 /\ op'[r].submitted = 1 /\ op'[r].status = 0
              => WritesCover(store'[r].writes, rep[r].mChunkSize)]_vars

C3_Witness ==
    \E r \in Ops :
        /\ op[r].submitted = 1
        /\ op[r].status = 0
        /\ Len(store[r].writes) = 3

\* The values handed to Terminate that the claims name
TerminateStatuses == { -EIO, -1, 0, 1, ECANCELED }

\* C4: a replicator that has allocated a staging file and terminates
\* before ChangeChunkVers was called (a failure or a cancel) has handed the
\* file to ReplicationDone with a strictly negative status; Terminate turns
\* every value, zero and positive ones included, into a negative status.
C4_StagingFileDiscarded ==
    /\ \A status \in TerminateStatuses : TerminateRes(status) < 0
    /\ \A r \in Ops :
          /\ Running
          /\ store[r].allocTarget # NoStore.allocTarget
          /\ store[r].versions = << >>
          /\ (op[r].submitted = 1 \/ rep[r].mCancelFlag)
          => /\ Len(store[r].released) = 1
             /\ store[r].released[1] < 0

C4_Witness ==
    \E r \in Ops :
        /\ store[r].allocTarget # NoStore.allocTarget
        /\ store[r].versions = << >>
        /\ op[r].submitted = 1
        /\ Len(store[r].released) = 1
        /\ store[r].released[1] = op[r].status
        /\ op[r].status = -EIO

\* C5: in direct mode, a peer read that completes with EBADCKSUM while it
\* skipped the disk verification is followed by one read of the same range
\* with the verification on, unless Cancel came while the read was in
\* flight; when that second read fails no read follows it and the op is
\* answered with its status (ECANCELED when Cancel came first).
C5_RetryOnceWithVerify ==
    \A r \in Ops :
        op[r].locationValid /\ Running =>
            \A i \in 1..Len(peerLog[r]) :
                peerLog[r][i].status = -EBADCKSUM /\ peerLog[r][i].skip =>
                    IF i = Len(peerLog[r])
                    THEN /\ rep[r].cancelled # "no"
                         /\ op[r].submitted = 1
                         /\ op[r].status = -ECANCELED
                    ELSE /\ peerLog[r][i + 1].offset = peerLog[r][i].offset
                         /\ peerLog[r][i + 1].numBytes
                               = peerLog[r][i].numBytes
                         /\ ~peerLog[r][i + 1].skip
                         /\ peerLog[r][i + 1].status < 0 =>
                               /\ Len(peerLog[r]) = i + 1
                               /\ op[r].submitted = 1
                               /\ op[r].status =
                                     IF rep[r].cancelled # "no"
                                     THEN -ECANCELED
                                     ELSE peerLog[r][i + 1].status

C5_Witness ==
    \E r \in Ops :
        /\ op[r].locationValid
        /\ Len(peerLog[r]) = 3
        /\ peerLog[r][2].status = -EBADCKSUM
        /\ peerLog[r][2].skip
        /\ peerLog[r][3].status = -EBADCKSUM
        /\ op[r].submitted = 1
        /\ op[r].status = -EBADCKSUM

\* C6: in recovery mode no write reaches beyond
\* sRSReaderMaxRecoverChunkSize, and while the process has not died the
\* bytes taken from the reader (written, being written or buffered) stay
\* within it: the completion that would exceed it is fatal before any of
\* its bytes is written.
C6_MaxRecoverChunkSize ==
    \A r \in Ops :
        r < nextOp /\ ~op[r].locationValid =>
            /\ \A i \in 1..Len(store[r].writes) :
                  store[r].writes[i].offset + store[r].writes[i].numBytes
                      <= sRSReaderMaxRecoverChunkSize
            /\ Running /\ rep[r].obj = "live" =>
                  rep[r].mOffset + rep[r].mReadTail
                     + (IF rep[r].mReadOp.offset = rep[r].mOffset
                        THEN rep[r].mReadOp.dataBuf ELSE 0)
                     <= sRSReaderMaxRecoverChunkSize

C6_Witness ==
    /\ fatal = "recovery: exceeds max recover chunk size"
    /\ \E r \in Ops :
          /\ ~op[r].locationValid
          /\ Len(store[r].writes) = 1
          /\ rep[r].mOffset = kDefaultReplicationReadSize

\* The effective target version of the registered replicator r
EffectiveVersionOf(r) ==
    IF op[r].targetVersion >= 0 THEN op[r].targetVersion
    ELSE rep[r].mChunkVersion

\* Cancel() has been called on replicator r of world w
CancelCalled(w, r) ==
    \/ w.rep[r].mCancelFlag
    \/ w.rep[r].mPendingCancelFlag
    \/ w.rep[r].obj = "dead"

\* The versions Replicator::Cancel is asked with
AskedVersions == CancelVersions \cup {3}

\* C7, as claimed: while the process runs, Replicator::Cancel(chunkId, v)
\* returns true exactly
\* when the registry holds a replicator for chunkId whose effective target
\* version equals v, for negative v as well.
C7_TrueIffVersionEqual ==
    Running =>
    \A c \in ChunkIds : \A v \in AskedVersions :
        CancelChunkReplication(World, c, v).ret
            <=> \E e \in RegFind(sInFlightReplications, c) :
                   EffectiveVersionOf(e[2]) = v

\* C7, amended: while the process runs, Replicator::Cancel(chunkId, v)
\* returns true exactly when
\* the registry holds a replicator for chunkId and either v is negative, or
\* the replicator still owns its op and its effective target version
\* (op.targetVersion if >= 0, else the replicator's chunkVersion) equals v;
\* when it returns true the entry is removed and the replicator cancelled.
C7_TrueIffNegativeOrEqual ==
    Running =>
    \A c \in ChunkIds : \A v \in AskedVersions :
        LET after == Exec(CancelChunkReplication(World, c, v))
        IN  /\ after.ret
                <=> \E e \in RegFind(sInFlightReplications, c) :
                       \/ v < 0
                       \/ rep[e[2]].mOwner /\ EffectiveVersionOf(e[2]) = v
            /\ after.ret =>
                  /\ RegFind(after.reg, c) = {}
                  /\ \A e \in RegFind(sInFlightReplications, c) :
                        CancelCalled(after, e[2])

C7_Witness ==
    \E e \in sInFlightReplications :
        /\ op[e[2]].targetVersion = 2
        /\ rep[e[2]].mChunkVersion = 3
        /\ CancelChunkReplication(World, e[1], 2).ret
        /\ CancelChunkReplication(World, e[1], -1).ret
        /\ ~CancelChunkReplication(World, e[1], 3).ret

\* What the claims say a replicator may be waiting for when it is cancelled
CancelPoints == { "grant", "size", "read", "write", "vers" }

\* C8: a replicator cancelled while it waited for a buffer grant, a size
\* probe, a peer read, a store write or the finalize has answered its op
\* with ECANCELED once nothing is left to be delivered to it.
C8_CancelledOpAnswered ==
    \A r \in Ops :
        Running /\ rep[r].cancelled \in CancelPoints /\ ~Pending(r) =>
            /\ op[r].submitted = 1
            /\ op[r].status = -ECANCELED

\* C9, as claimed: ChangeChunkVers is called with op.targetVersion when
\* that is >= 0, also when the source reports another version, and with
\* the source's version otherwise.
C9_FinalizedAtTargetVersion ==
    \A r \in Ops :
        rep[r].pend = "vers" =>
            /\ Len(store[r].versions) = 1
            /\ store[r].versions[1] =
                  IF op[r].targetVersion >= 0 THEN op[r].targetVersion
                  ELSE rep[r].mChunkMetadataOp.chunkVersion

\* C9, amended: ChangeChunkVers is always called with the source's version
\* (the version the peer reported in direct mode, op.chunkVersion in
\* recovery mode); op.targetVersion, when >= 0, is only the target version
\* AllocChunk was called with.
C9_FinalizedAtSourceVersion ==
    \A r \in Ops :
        /\ Len(store[r].versions) <= 1
        /\ rep[r].pend = "vers" =>
              /\ Len(store[r].versions) = 1
              /\ store[r].versions[1] = rep[r].mChunkMetadataOp.chunkVersion
              /\ ~op[r].locationValid =>
                    store[r].versions[1] = op[r].chunkVersion
              /\ store[r].allocTarget =
                    IF op[r].targetVersion >= 0 THEN op[r].targetVersion
                    ELSE store[r].versions[1]

C9_Witness ==
    \E r \in Ops :
        /\ rep[r].pend = "vers"
        /\ op[r].targetVersion = 2
        /\ store[r].allocTarget = 2
        /\ store[r].versions = << 3 >>

\* C10: a replicator cancelled while a size probe, a read, a store write or
\* the finalize was in flight answers its op with ECANCELED, never with 0.
C10_CompletionCancelled ==
    \A r \in Ops :
        /\ rep[r].cancelled \in { "size", "read", "reader", "write", "vers" }
        /\ op[r].submitted > 0
        => op[r].status = -ECANCELED

\* This step answers the op of replicator r
Completes(r) ==
    /\ op[r].submitted = 0
    /\ op'[r].submitted = 1
    /\ rep'[r].obj # "none"

Deliver(r) ==
    \/ Granted(r)
    \/ PeerSizeDone(r)
    \/ PeerReadDone(r)
    \/ DiskWriteDone(r)
    \/ ChangeChunkVersDone(r)
    \/ ReaderDone(r)
    \/ ReaderError(r)
    \/ ReaderClosed(r)
    \/ ThreadDequeue(r)
    \/ ThreadHandle(r)
    \/ ThreadFinish(r)

Registered(r) == << rep[r].mChunkId, r >> \in sInFlightReplications

\* C12: CancelAll leaves the registry empty and calls Cancel() exactly once
\* on every replicator that was registered and on no other; a replicator
\* registered after the swap, while a swept replicator of the same chunkId
\* still runs, is neither cancelled nor unregistered when the swept one
\* gets its completions, terminates and is destroyed.
C12_CancelAllSweepsOnce ==
    /\ [](Running =>
            LET after == Exec(CancelAllImpl(World))
            IN  /\ after.reg = {}
                /\ \A r \in Ops :
                      after.rep[r].cancels =
                          rep[r].cancels
                              + IF \E e \in sInFlightReplications : e[2] = r
                                THEN 1 ELSE 0)
    /\ [][\A a \in Ops : \A b \in Ops :
            /\ a # b
            /\ rep[a].cancelled # "no"
            /\ Registered(b)
            /\ Deliver(a)
            => /\ Registered(b)'
               /\ rep'[b] = rep[b]]_vars

C12_Witness ==
    \E a \in Ops : \E b \in Ops :
        /\ rep[a].obj = "dead"
        /\ rep[a].cancels = 1
        /\ op[a].status = -ECANCELED
        /\ op[a].chunkId = op[b].chunkId
        /\ sInFlightReplications = { << op[b].chunkId, b >> }
        /\ rep[b].obj = "live"
        /\ rep[b].cancels = 0
        /\ rep[b].pend = "read"

Allocated(r) == store[r].allocTarget # NoStore.allocTarget

\* C14: the staging file a replicator got from AllocChunk is handed to
\* gChunkManager.ReplicationDone at most once, never without an allocation,
\* and exactly once when the replicator has answered its op, has its cancel
\* flag set or is destroyed; the replicator holds the handle exactly until
\* then.  A completion that arrives after Cancel() does not hand it over
\* again.
C14_FileReleasedOnce ==
    \A r \in Ops :
        /\ Len(store[r].released) <= 1
        /\ ~Allocated(r) => store[r].released = << >>
        /\ Running /\ rep[r].obj = "live" =>
              (rep[r].mFileHandle
                  <=> Allocated(r) /\ store[r].released = << >>)
        /\ /\ Running
           /\ Allocated(r)
           /\ (op[r].submitted = 1 \/ rep[r].mCancelFlag
                  \/ rep[r].obj = "dead")
           => Len(store[r].released) = 1

C14_Witness ==
    \E r \in Ops :
        /\ rep[r].cancelled = "write"
        /\ rep[r].obj = "dead"
        /\ op[r].submitted = 1
        /\ op[r].status = -ECANCELED
        /\ Len(store[r].writes) = 2
        /\ store[r].released = << -ECANCELED >>

\* The writes leave no gap and do not overlap
Contiguous(ws) ==
    \A i \in 1..Len(ws) :
        ws[i].offset =
            IF i = 1 THEN 0 ELSE ws[i - 1].offset + ws[i - 1].numBytes

\* C15: the staging file is allocated at version 0, and ChangeChunkVers is
\* called at most once, by a replicator that was not cancelled, has
\* mDone set and mOffset = mChunkSize, with no write in flight and the
\* writes covering the chunk; after the call no further write or read is
\* issued and ChangeChunkVers is not called again.
C15_FinalizeOnlyWhenDone ==
    [][\A r \in Ops :
          /\ Allocated(r)' => store'[r].allocVersion = kStagingVersion
          /\ store[r].versions = << >> /\ store'[r].versions # << >> =>
                /\ Len(store'[r].versions) = 1
                /\ Allocated(r)'
                /\ ~rep[r].mCancelFlag
                /\ Contiguous(store'[r].writes)
                /\ rep'[r].obj = "live" =>
                      /\ rep'[r].mDone
                      /\ ~rep'[r].mCancelFlag
                      /\ rep'[r].mOffset = rep'[r].mChunkSize
                      /\ rep'[r].pend = IF op'[r].submitted = 0 THEN "vers"
                                        ELSE "none"
                      /\ WritesCover(store'[r].writes, rep'[r].mChunkSize)
          /\ store[r].versions # << >> =>
                /\ store'[r].versions = store[r].versions
                /\ store'[r].writes = store[r].writes
                /\ peerLog'[r] = peerLog[r]]_vars

C15_Witness ==
    \E r \in Ops :
        /\ rep[r].pend = "vers"
        /\ rep[r].mDone
        /\ rep[r].mOffset = CHUNKSIZE
        /\ store[r].allocVersion = kStagingVersion
        /\ Len(store[r].writes) = 2
        /\ Len(store[r].versions) = 1

\* The references held on replicator r between two events: the one taken
\* by Replicator::Run for the op, and the one of a pending reader close
HeldRefs(r) ==
    (IF rep[r].mOwner THEN 1 ELSE 0)
        + (IF rep[r].mPendingCloseFlag THEN 1 ELSE 0)

\* C16: a replicator is not destroyed while a buffer grant, a size probe, a
\* peer or reader read, a store write or the finalize is still to be
\* delivered to it, or while the close of its reader is pending: such a
\* completion is pending only while the replicator owns its op, the op and
\* the pending close hold one reference each, and the object lives as long
\* as a reference is held (while the process runs).
C16_NotDestroyedWhilePending ==
    \A r \in Ops :
        /\ rep[r].obj = "dead" =>
              /\ ~rep[r].waiting
              /\ rep[r].pend = "none"
        /\ Running /\ rep[r].obj = "live" =>
              /\ rep[r].ref = HeldRefs(r)
              /\ rep[r].ref >= 1
              /\ (rep[r].waiting \/ rep[r].pend # "none" \/ rep[r].readerReq)
                    => rep[r].mOwner
              /\ rep[r].readerOpen /\ ~rep[r].mOwner
                    => rep[r].mPendingCloseFlag

C16_Witness ==
    \E r \in Ops :
        /\ rep[r].obj = "live"
        /\ op[r].submitted = 1
        /\ ~rep[r].mOwner
        /\ rep[r].mPendingCloseFlag
        /\ rep[r].readerOpen
        /\ rep[r].ref = 1

\* Read i + 1 of replicator r is the retry of read i: the same range, read
\* again with the disk verification after EBADCKSUM
IsRetry(r, i) ==
    /\ op[r].locationValid
    /\ peerLog[r][i + 1].offset = peerLog[r][i].offset
    /\ peerLog[r][i].status = -EBADCKSUM
    /\ peerLog[r][i].skip
    /\ ~peerLog[r][i + 1].skip

\* One read at a time, one write at a time, the writes appended in order
\* and within what was read
MonotoneAppend(r) ==
    /\ \A i \in 1..(Len(peerLog[r]) - 1) : peerLog[r][i].status # 1
    /\ Contiguous(store[r].writes)
    /\ \A i \in 1..Len(store[r].writes) : store[r].writes[i].numBytes > 0
    /\ store[r].writes # << >> =>
          /\ peerLog[r] # << >>
          /\ store[r].writes[Len(store[r].writes)].offset
                + store[r].writes[Len(store[r].writes)].numBytes
             <= peerLog[r][Len(peerLog[r])].offset
                   + peerLog[r][Len(peerLog[r])].numBytes

\* C17, as claimed: the reads of one replication are issued at strictly
\* ascending offsets, no offset being read twice, and the writes are
\* appended in the same order.
C17_ReadsStrictlyAscending ==
    \A r \in Ops :
        /\ \A i \in 1..(Len(peerLog[r]) - 1) :
              peerLog[r][i].offset < peerLog[r][i + 1].offset
        /\ MonotoneAppend(r)

\* C17, amended: the reads of one replication are issued one at a time at
\* ascending offsets, and an offset is read twice only by the retry with
\* verification that follows EBADCKSUM in direct mode; the writes are
\* issued one at a time, each where the one before ended.
C17_ReadsAscendingButRetry ==
    \A r \in Ops :
        /\ \A i \in 1..(Len(peerLog[r]) - 1) :
              \/ peerLog[r][i].offset < peerLog[r][i + 1].offset
              \/ IsRetry(r, i)
        /\ MonotoneAppend(r)

C17_Witness ==
    \E r \in Ops :
        /\ Len(peerLog[r]) = 3
        /\ peerLog[r][1].offset = 0
        /\ peerLog[r][2].offset = kDefaultReplicationReadSize
        /\ IsRetry(r, 2)
        /\ peerLog[r][3].status = 0
        /\ Len(store[r].writes) = 2
        /\ store[r].writes[2].offset = kDefaultReplicationReadSize

\* Replicator a owned its op when the Run of a later request b for the
\* same chunkId called Cancel() on it
Preempted(a, b) ==
    /\ a < b
    /\ rep[b].obj # "none"
    /\ op[a].chunkId = op[b].chunkId
    /\ rep[a].cancelled \notin { "no", "idle" }

\* A delivery to a leaves b as it was
Untouched(a, b) ==
    Deliver(a) =>
        /\ rep'[b] = rep[b]
        /\ op'[b] = op[b]
        /\ store'[b] = store[b]
        /\ peerLog'[b] = peerLog[b]
        /\ Registered(b) => Registered(b)'

\* C18: a replicator pre-empted by a new request for its chunk answers its
\* op with ECANCELED and chunkVersion -1, and what is delivered to it
\* afterwards, up to its termination and destruction, leaves the new
\* replicator, its op, its staging file and its registry entry unchanged.
C18_PreemptedEndsCancelled ==
    /\ [](\A a \in Ops : \A b \in Ops :
            Preempted(a, b) /\ op[a].submitted = 1 =>
                /\ op[a].status = -ECANCELED
                /\ op[a].chunkVersion = -1)
    /\ [][\A a \in Ops : \A b \in Ops :
            Preempted(a, b) => Untouched(a, b)]_vars

\* The program state of world w, without the count of Cancel() calls
StateOf(w) ==
    << [ r \in Ops |-> [ w.rep[r] EXCEPT !.cancels = 0 ] ],
       w.op, w.reg, w.store, w.peerLog, w.ctrs, w.skipFlag, w.maxRecover,
       w.panic, w.fatal >>

\* Cancel() has been called on replicator r of world w and r is alive
CancelledAlive(w, r) ==
    /\ w.fatal = "none"
    /\ w.rep[r].obj = "live"
    /\ w.rep[r].cancels > 0

\* World w with Cancel() called on replicator r, in a build with (nd) or
\* without NDEBUG
CancelAgain(w, r, nd) ==
    Exec(VCancel([w EXCEPT !.todo = << >>, !.cur = "main",
                           !.locked = TRUE,
                           !.x = [NoAnswers EXCEPT !.ndebug = nd]], r))

\* C19: Cancel() on a replicator on which Cancel() was called before, in
\* direct or recovery mode and whatever it waits for, changes nothing: no
\* field of any replicator, no op, no registry entry, no release of a
\* staging file, no counter; this holds in every reachable state and in the
\* state right after a first Cancel().
C19_CancelIdempotent ==
    \A r \in Ops : \A nd \in BOOLEAN :
        /\ CancelledAlive(World, r) =>
              StateOf(CancelAgain(World, r, nd)) = StateOf(World)
        /\ Running /\ rep[r].obj = "live" =>
              LET once == CancelAgain(World, r, nd)
              IN  CancelledAlive(once, r) =>
                      StateOf(CancelAgain(once, r, nd)) = StateOf(once)

C19_Witness ==
    \E r \in Ops :
        /\ CancelledAlive(World, r)
        /\ rep[r].isRS
        /\ rep[r].mPendingCancelFlag
        /\ rep[r].mCancelFlag
        /\ rep[r].pend = "write"
        /\ store[r].released = << -ECANCELED >>
        /\ CancelAgain(World, r, FALSE).rep[r].cancels = 2
        /\ CancelAgain(World, r, FALSE).store[r].released
              = << -ECANCELED >>

\* The requests that pass the validation of Replicator::Run
ValidInputs ==
    { in \in RunInputs :
         /\ ~MalformedAccess(in.access)
         /\ in.peerOk
         /\ ~InvalidRecoveryRequest(in.params) }

\* World after Replicator::Run(in) when the buffer manager answers q
AfterRun(in, q) ==
    Exec(ReplicatorRun(
           [World EXCEPT !.x = [NoAnswers EXCEPT !.overQuota = (q = "over"),
                                                 !.granted = (q = "now")]],
           nextOp, in))

\* C20: a request over quota is answered with ENOMEM without Start(), so
\* without a size probe or a read; a queued request waits and Start() is
\* not called before the Granted upcall; a request granted at once has
\* Start() called inside Run.  Start() is called at most once for one
\* replicator, by Run or by the Granted upcall of a waiting replicator.
C20_AdmissionStartsOnce ==
    /\ [](Running /\ nextOp <= MaxOps =>
            \A in \in ValidInputs :
                LET over == AfterRun(in, "over")
                    wait == AfterRun(in, "wait")
                    now  == AfterRun(in, "now")
                IN  /\ over.op[nextOp].submitted = 1
                    /\ over.op[nextOp].status = -ENOMEM
                    /\ over.rep[nextOp].obj = "dead"
                    /\ over.rep[nextOp].starts = 0
                    /\ over.peerLog[nextOp] = << >>
                    /\ wait.rep[nextOp].waiting
                    /\ wait.rep[nextOp].starts = 0
                    /\ wait.rep[nextOp].pend = "none"
                    /\ wait.rep[nextOp].mState = kNone
                    /\ wait.op[nextOp].submitted = 0
                    /\ now.rep[nextOp].starts = 1
                    /\ ~now.rep[nextOp].waiting)
    /\ [](\A r \in Ops : /\ rep[r].starts <= 1
                         /\ rep[r].waiting => rep[r].starts = 0)
    /\ [][\A r \in Ops :
            rep'[r].starts # rep[r].starts =>
                /\ rep'[r].starts = 1
                /\ ~rep'[r].waiting
                /\ rep[r].waiting \/ rep[r].obj = "none"]_vars

C20_Witness ==
    \E r \in Ops :
        /\ rep[r].obj = "live"
        /\ rep[r].starts = 1
        /\ ~rep[r].waiting
        /\ rep[r].pend = "size"
        /\ op[r].submitted = 0
        /\ peerLog[r] = << >>

\* Answers of the peer that hold one byte more than the read asked for
OverlongAnswers(n) ==
    { [ status |-> 0, numRd |-> n + 1, cks |-> k ] :
         k \in {0, CeilBlocks(n + 1)} }

\* 0 <= mOffset <= mChunkSize <= CHUNKSIZE for the live replicators of w
SizesInRange(w) ==
    \A r \in Ops :
        w.rep[r].obj = "live" =>
            /\ 0 <= w.rep[r].mOffset
            /\ w.rep[r].mOffset <= w.rep[r].mChunkSize
            /\ w.rep[r].mChunkSize <= CHUNKSIZE

\* The size answers HandleStartDone refuses
InvalidSizeAnswers ==
    { m \in MetaAnswers :
         m.status = 0 /\ (m.chunkSize < 0 \/ m.chunkSize > CHUNKSIZE) }

\* C21: 0 <= mOffset <= mChunkSize <= CHUNKSIZE holds for every replicator
\* after every completion, also when the peer answers a read with more
\* bytes than were asked for and the write of those bytes completes; and a
\* size answer outside [0, CHUNKSIZE] that reaches a replicator that was
\* not cancelled ends it with -EINVAL: the op is answered, no staging file
\* was allocated, nothing was read or written.
C21_SizesWithinChunk ==
    Running =>
        /\ SizesInRange(World)
        /\ \A r \in Ops :
              Live(r) /\ rep[r].pend = "read" =>
                  \A a \in OverlongAnswers(rep[r].mReadOp.numBytes) :
                      LET w1 == DeliverRead(World, r, a)
                          w2 == DeliverWrite(w1, r, 0)
                      IN  /\ ~Dead(w1) => SizesInRange(w1)
                          /\ ~Dead(w1) /\ w1.rep[r].pend = "write"
                                /\ ~Dead(w2) => SizesInRange(w2)
        /\ \A r \in Ops :
              Live(r) /\ rep[r].pend = "size" /\ ~rep[r].mCancelFlag =>
                  \A m \in InvalidSizeAnswers :
                      LET w1 == DeliverSize(World, r, m)
                      IN  /\ w1.op[r].status = -EINVAL
                          /\ w1.op[r].submitted = 1
                          /\ w1.rep[r].obj = "dead"
                          /\ w1.store[r] = NoStore
                          /\ w1.peerLog[r] = << >>

C21_Witness ==
    \E r \in Ops :
        /\ Live(r)
        /\ rep[r].mChunkMetadataOp.chunkSize = 7
        /\ rep[r].mChunkSize = 7
        /\ rep[r].mOffset = kDefaultReplicationReadSize
        /\ rep[r].pend = "read"
        /\ store[r].writes # << >>

\* Successful answers of the peer with fewer bytes than the n asked for
ShortAnswers(n) ==
    { [ status |-> 0, numRd |-> m, cks |-> k ] :
         m \in 0..(n - 1), k \in {0, 1, CeilBlocks(n)} }

\* C22: in direct mode, when a read of a replicator that was not cancelled
\* completes with success and with fewer bytes than requested while
\* mOffset + bytes < mChunkSize, the replicator ends with -EINVAL: the op
\* is answered, the staging file is released with -EINVAL, and no write is
\* issued for the bytes of that read.
C22_ShortReadInvalid ==
    \A r \in Ops :
        Running /\ Live(r) /\ rep[r].pend = "read" /\ ~rep[r].mCancelFlag =>
            \A a \in ShortAnswers(rep[r].mReadOp.numBytes) :
            \A x \in Answers({"wsync"}) :
                rep[r].mOffset + a.numRd < rep[r].mChunkSize =>
                    LET w1 == DeliverRead([World EXCEPT !.x = x], r, a)
                    IN  /\ ~rep[r].isRS
                        /\ w1.fatal = "none"
                        /\ w1.op[r].status = -EINVAL
                        /\ w1.op[r].submitted = 1
                        /\ w1.op[r].chunkVersion = -1
                        /\ w1.rep[r].obj = "dead"
                        /\ w1.store[r].writes = store[r].writes
                        /\ w1.store[r].released = << -EINVAL >>
                        /\ w1.store[r].versions = << >>

C22_Witness ==
    \E r \in Ops :
        /\ op[r].status = -EINVAL
        /\ op[r].submitted = 1
        /\ Len(peerLog[r]) = 2
        /\ peerLog[r][2].offset = kDefaultReplicationReadSize
        /\ peerLog[r][2].status = 0
        /\ Len(store[r].writes) = 1
        /\ store[r].released = << -EINVAL >>

\* The full answers to a read of n bytes, with or without checksums
FullAnswers(n) ==
    { [ status |-> 0, numRd |-> n, cks |-> k ] : k \in {0, CeilBlocks(n)} }

\* The offset and the length of the writes ws
Extents(ws) ==
    [ i \in 1..Len(ws) |->
        [ offset |-> ws[i].offset, numBytes |-> ws[i].numBytes ] ]

\* C23: every write handed to the chunk manager starts at a multiple of
\* CHECKSUM_BLOCKSIZE and is not empty; every write but the last of a
\* replicator is a multiple of CHECKSUM_BLOCKSIZE long, and a write that is
\* not is shorter than a block and ends at mChunkSize.  In direct mode a
\* last read of n bytes, n longer than a block and not a multiple of it,
\* gives a write of the n - n % CHECKSUM_BLOCKSIZE aligned bytes, and when
\* that write completes one write of the n % CHECKSUM_BLOCKSIZE bytes left,
\* which ends at mChunkSize; after it the replicator finalizes.
C23_WritesBlockAligned ==
    /\ \A r \in Ops : \A i \in 1..Len(store[r].writes) :
          LET wr == store[r].writes[i]
          IN  /\ wr.offset % CHECKSUM_BLOCKSIZE = 0
              /\ wr.numBytes > 0
              /\ i < Len(store[r].writes) =>
                     wr.numBytes % CHECKSUM_BLOCKSIZE = 0
              /\ wr.numBytes % CHECKSUM_BLOCKSIZE # 0 =>
                     /\ wr.numBytes < CHECKSUM_BLOCKSIZE
                     /\ Running /\ Live(r) =>
                            wr.offset + wr.numBytes = rep[r].mChunkSize
    /\ \A r \in Ops :
          Running /\ Live(r) /\ rep[r].pend = "read" /\ ~rep[r].mCancelFlag =>
              LET n    == rep[r].mReadOp.numBytes
                  tail == n % CHECKSUM_BLOCKSIZE
              IN  n > CHECKSUM_BLOCKSIZE /\ tail # 0 =>
                    \A a \in FullAnswers(n) :
                        LET w1 == DeliverRead(World, r, a)
                            w2 == DeliverWrite(w1, r, 0)
                            w3 == DeliverWrite(w2, r, 0)
                        IN  /\ rep[r].mOffset + n = rep[r].mChunkSize
                            /\ Extents(w1.store[r].writes)
                                 = Append(Extents(store[r].writes),
                                          [ offset |-> rep[r].mOffset,
                                            numBytes |-> n - tail ])
                            /\ w1.rep[r].pend = "write"
                            /\ Extents(w2.store[r].writes)
                                 = Append(Extents(w1.store[r].writes),
                                          [ offset |-> rep[r].mOffset + n
                                                          - tail,
                                            numBytes |-> tail ])
                            /\ w2.rep[r].pend = "write"
                            /\ Len(w2.peerLog[r]) = Len(peerLog[r])
                            /\ w3.store[r].writes = w2.store[r].writes
                            /\ w3.rep[r].pend = "vers"
                            /\ w3.fatal = "none"

C23_Witness ==
    \E r \in Ops :
        /\ Live(r)
        /\ rep[r].mChunkSize = 7
        /\ Extents(store[r].writes)
             = << [ offset |-> 0, numBytes |-> 4 ],
                  [ offset |-> 4, numBytes |-> 2 ],
                  [ offset |-> 6, numBytes |-> 1 ] >>
        /\ rep[r].pend = "write"

\* The checksums of the blocks a write covers, in block order
ChecksumsOf(wr) == BlockChecksums(wr.offset, CeilBlocks(wr.numBytes))

\* C24: a write that carries checksums carries one for each checksum block
\* it covers (CeilBlocks(numBytes) of them), each computed from that block,
\* in block order.  In direct mode, when the last read of n bytes, n longer
\* than a block and not a multiple of it, is answered with checksums, the
\* write of the aligned prefix carries the checksums of the read but the
\* last, and the write of the tail carries that last checksum alone.
C24_OneChecksumPerBlock ==
    /\ \A r \in Ops : \A i \in 1..Len(store[r].writes) :
          LET wr == store[r].writes[i]
          IN  wr.checksums # << >> =>
                  /\ Len(wr.checksums) = CeilBlocks(wr.numBytes)
                  /\ wr.checksums = ChecksumsOf(wr)
    /\ \A r \in Ops :
          Running /\ Live(r) /\ rep[r].pend = "read" /\ ~rep[r].mCancelFlag =>
              LET n   == rep[r].mReadOp.numBytes
                  cks == BlockChecksums(rep[r].mReadOp.offset, CeilBlocks(n))
                  w1  == DeliverRead(World, r,
                            [ status |-> 0, numRd |-> n,
                              cks |-> CeilBlocks(n) ])
                  w2  == DeliverWrite(w1, r, 0)
                  ws1 == w1.store[r].writes
                  ws2 == w2.store[r].writes
              IN  n > CHECKSUM_BLOCKSIZE /\ n % CHECKSUM_BLOCKSIZE # 0 =>
                      /\ Len(ws1) = Len(store[r].writes) + 1
                      /\ Len(ws2) = Len(ws1) + 1
                      /\ ws1[Len(ws1)].checksums \o ws2[Len(ws2)].checksums
                             = cks
                      /\ Len(ws2[Len(ws2)].checksums) = 1

C24_Witness ==
    \E r \in Ops :
        /\ Live(r)
        /\ rep[r].pend = "write"
        /\ store[r].writes
             = << [ offset |-> 0, numBytes |-> 4, checksums |-> << 0, 1 >> ],
                  [ offset |-> 4, numBytes |-> 2, checksums |-> << 2 >> ],
                  [ offset |-> 6, numBytes |-> 1, checksums |-> << 3 >> ] >>

\* Read i of replicator r is the retry of the read before it
RetryAt(r, i) == i > 1 /\ IsRetry(r, i - 1)

\* Read i of replicator r comes after a read that failed with EBADCKSUM
\* while it skipped the disk verification
AfterBadChecksum(r, i) ==
    \E j \in 1..(i - 1) :
        peerLog[r][j].status = -EBADCKSUM /\ peerLog[r][j].skip

\* C25, as claimed: with sReadSkipDiskVerifyFlag on, a direct replication
\* issues without the skip only the retry of a read that failed with
\* EBADCKSUM (or a read at an offset that is not a block multiple), and
\* every first read of an offset that fails with EBADCKSUM is retried,
\* unless Cancel() was called.
C25_RetryOncePerOffset ==
    \A r \in Ops :
        Running /\ op[r].locationValid /\ sReadSkipDiskVerifyFlag =>
            \A i \in 1..Len(peerLog[r]) :
                /\ ~peerLog[r][i].skip =>
                       \/ RetryAt(r, i)
                       \/ peerLog[r][i].offset % CHECKSUM_BLOCKSIZE # 0
                /\ /\ peerLog[r][i].status = -EBADCKSUM
                   /\ ~RetryAt(r, i)
                   /\ rep[r].cancelled = "no"
                   => i < Len(peerLog[r]) /\ IsRetry(r, i)

\* C25, amended: with sReadSkipDiskVerifyFlag on, a direct replication
\* reads with the skip until a read fails with EBADCKSUM; that read is
\* retried with the verification on, and every read after it is issued
\* with the verification on as well.  So a replication retries at most
\* once, and an EBADCKSUM at a later offset is not retried: it ends the
\* replication with -EBADCKSUM (-ECANCELED after Cancel()).
C25_RetryOncePerReplication ==
    \A r \in Ops :
        Running /\ op[r].locationValid /\ sReadSkipDiskVerifyFlag =>
            /\ \A i \in 1..Len(peerLog[r]) :
                  /\ peerLog[r][i].offset % CHECKSUM_BLOCKSIZE = 0
                  /\ ~peerLog[r][i].skip <=> AfterBadChecksum(r, i)
                  /\ peerLog[r][i].status = -EBADCKSUM /\ peerLog[r][i].skip
                        /\ rep[r].cancelled = "no"
                        => i < Len(peerLog[r]) /\ IsRetry(r, i)
                  /\ peerLog[r][i].status = -EBADCKSUM /\ ~peerLog[r][i].skip
                        => /\ i = Len(peerLog[r])
                           /\ op[r].submitted = 1
                           /\ op[r].status = IF rep[r].cancelled # "no"
                                             THEN -ECANCELED ELSE -EBADCKSUM
            /\ \A i \in 1..Len(peerLog[r]) : \A j \in 1..Len(peerLog[r]) :
                  RetryAt(r, i) /\ RetryAt(r, j) => i = j

C25_Witness ==
    \E r \in Ops :
        /\ op[r].locationValid
        /\ sReadSkipDiskVerifyFlag
        /\ rep[r].cancelled = "no"
        /\ Len(peerLog[r]) = 3
        /\ peerLog[r][1].status = -EBADCKSUM
        /\ peerLog[r][1].skip
        /\ peerLog[r][2].status = 0
        /\ ~peerLog[r][2].skip
        /\ peerLog[r][3].offset = kDefaultReplicationReadSize
        /\ ~peerLog[r][3].skip
        /\ peerLog[r][3].status = -EBADCKSUM
        /\ op[r].submitted = 1
        /\ op[r].status = -EBADCKSUM

\* C26: a recovery request whose parameters fail the test of
\* Replicator::Run (a negative chunkOffset or one that is not a multiple of
\* CHUNKSIZE, a striper type other than RS, numStripes <= 0,
\* numRecoveryStripes <= 0, a stripeSize below KFS_MIN_STRIPE_SIZE, above
\* KFS_MAX_STRIPE_SIZE, not dividing CHUNKSIZE or not a multiple of
\* KFS_STRIPE_ALIGNMENT, a port <= 0) is answered with -EINVAL inside Run:
\* no replicator is constructed, the registry, every replicator (the one
\* registered for the same chunkId included), the staging files and the
\* reads stay as they are, and only mRecoveryCount and mRecoveryErrorCount
\* are counted up.  A request whose parameters are at the limits of the
\* constraints is not rejected: a replicator is constructed for it.
C26_InvalidRecoveryRejected ==
    Running /\ nextOp <= MaxOps + MaxPreempt =>
      /\ \A in \in LimitInputs :
            AfterRun(in, "wait").rep[nextOp].obj # "none"
      /\ \A in \in InvalidInputs : \A q \in {"over", "now", "wait"} :
            LET w == AfterRun(in, q)
            IN  /\ w.fatal = "none"
                /\ w.op[nextOp].status = -EINVAL
                /\ w.op[nextOp].submitted = 1
                /\ w.rep = rep
                /\ w.rep[nextOp].obj = "none"
                /\ w.reg = sInFlightReplications
                /\ w.store = store
                /\ w.peerLog = peerLog
                /\ \A o \in Ops \ {nextOp} : w.op[o] = op[o]
                /\ w.ctrs = [ sCounters EXCEPT
                                !.mRecoveryCount = @ + 1,
                                !.mRecoveryErrorCount = @ + 1 ]

C26_Witness ==
    /\ nextOp = 3
    /\ op[2].status = -EINVAL
    /\ op[2].submitted = 1
    /\ ~op[2].locationValid
    /\ rep[2].obj = "none"
    /\ sCounters.mRecoveryErrorCount = 1
    /\ op[1].chunkId = op[2].chunkId
    /\ Live(1)
    /\ << op[1].chunkId, 1 >> \in sInFlightReplications
    /\ rep[1].cancels = 0
    /\ rep[1].mOffset > 0

\* The fatal branches of the handoff: Enqueue with a cancel pending and
\* another state, Enqueue without a cancel pending over a state that is not
\* kNone, Handle with no cancel pending and no state; and the assertions on
\* mState of Read() and Start()
HandoffFailures ==
    { "recovery: invalid cancel enqueue",
      "recovery: invalid state transtion",
      "recovery: invalid state",
      "assert: RS Read",
      "assert: RS Start" }

\* C27: in recovery mode no Enqueue and no Handle takes a fatal branch,
\* whatever the order of requests, grants, completions, steps of the client
\* thread and Cancel calls: Enqueue(s) is called with no cancel pending and
\* mState = kNone, or with a cancel pending and mState = s.  A replicator
\* with no cancel pending that is queued for its thread or taken off the
\* queue has the state it was enqueued with, kStart or kRead.
C27_HandoffLegal ==
    /\ fatal \notin HandoffFailures
    /\ \A r \in Ops :
          /\ rep[r].obj = "live" /\ (rep[r].queued \/ rep[r].step = "deq")
                /\ ~rep[r].mPendingCancelFlag
                => rep[r].mState \in {kStart, kRead}
          /\ rep[r].obj = "live" /\ rep[r].readerReq
                => rep[r].mState = kRead
          /\ rep[r].mState \in {kNone, kStart, kRead}

C27_Witness ==
    \E r \in Ops :
        /\ Running
        /\ rep[r].obj = "live"
        /\ rep[r].hasThread
        /\ rep[r].mPendingCancelFlag
        /\ ~rep[r].mCancelFlag
        /\ rep[r].queued
        /\ rep[r].mState = kNone
        /\ rep[r].mOffset > 0
        /\ rep[r].pend = "none"


\* The answers of the reader that carry a buffer
BufferAnswers == { a \in ReaderAnswers : a.status = 0 }

\* A buffer shorter than the read size, or one that takes the cursor to
\* the chunk size
LastBuffer(me, a) ==
    \/ a.size < RSReadSize
    \/ me.mOffset + me.mReadTail + RSReadSize >= me.mChunkSize

RECURSIVE BytesWritten(_)
BytesWritten(ws) ==
    IF ws = << >> THEN 0
    ELSE ws[Len(ws)].numBytes + BytesWritten(SubSeq(ws, 1, Len(ws) - 1))

\* Done() has taken a buffer of a.size bytes in as the end of the chunk;
\* active: the reader is still active after Close()
TakenAsEnd(me, after, a, active) ==
    /\ after.mReadOp.dataBuf = me.mReadTail + a.size
    /\ after.mReadOp.numBytes = me.mReadTail + a.size
    /\ after.mReadTail = 0
    /\ after.mChunkSize = me.mOffset + me.mReadTail + a.size
    /\ after.readerOpen = active
    /\ after.mPendingCloseFlag = active
    /\ ~after.mReadInFlightFlag

\* Done() has taken a buffer in that is not the end of the chunk
TakenAsMiddle(me, after, a) ==
    /\ after.mReadOp.dataBuf + after.mReadTail = me.mReadTail + a.size
    /\ after.mChunkSize = me.mChunkSize
    /\ after.readerOpen = me.readerOpen
    /\ after.mPendingCloseFlag = me.mPendingCloseFlag

\* C28: in recovery mode a successful reader completion whose buffer is
\* shorter than the read size, or for which offset + readTail + readSize
\* >= chunkSize, is taken as the end of the chunk: the write buffer is
\* readTail followed by the new bytes, chunkSize becomes offset + that
\* total and the reader is closed (any other buffer leaves the chunk size
\* and the reader alone); when the recovery succeeds the bytes written sum
\* to that final chunkSize; and a replicator whose reader close is pending
\* is destroyed only by the upcall that observes the close.
C28_EndOfChunk ==
    /\ [](\A r \in Ops :
             Running /\ Live(r) /\ rep[r].readerReq /\ rep[r].step = "none"
                => \A a \in BufferAnswers : \A active \in BOOLEAN :
                      LET w == [World EXCEPT !.x.active = active]
                          after == Done(ReaderWorld(w, r), r,
                                        ReaderArg(a)).rep[r]
                      IN  IF LastBuffer(rep[r], a)
                          THEN TakenAsEnd(rep[r], after, a, active)
                          ELSE TakenAsMiddle(rep[r], after, a))
    /\ [][\A r \in Ops :
             /\ rep[r].isRS /\ op[r].submitted = 0
                   /\ op'[r].submitted = 1 /\ op'[r].status = 0
                   => /\ BytesWritten(store'[r].writes) = rep[r].mChunkSize
                      /\ ~rep[r].readerOpen \/ rep[r].mPendingCloseFlag
             /\ rep[r].obj = "live" /\ rep[r].mPendingCloseFlag
                   /\ rep'[r].obj = "dead"
                   => /\ rep[r].readerOpen
                      /\ rep' = DeliverClosed(World, r).rep]_vars

\* A recovery has written a full read and a short last buffer, 7 bytes in
\* all, and has succeeded; the replicator lives until the close of its
\* reader is observed
C28_Witness ==
    \E r \in Ops :
        /\ rep[r].obj = "live"
        /\ rep[r].isRS
        /\ op[r].submitted = 1
        /\ op[r].status = 0
        /\ rep[r].mChunkSize = kDefaultReplicationReadSize + 3
        /\ BytesWritten(store[r].writes) = kDefaultReplicationReadSize + 3
        /\ rep[r].mPendingCloseFlag
        /\ rep[r].readerOpen


\* The reads of r that were issued and whose completion was not taken
Outstanding(r) ==
    { i \in 1..Len(peerLog[r]) : peerLog[r][i].status = 1 }

\* r waits for the completion of a read by the peer or by the reader
ReadPending(r) == rep[r].pend = "read" \/ rep[r].readerReq

\* C29: a replicator has at most one outstanding peer or reader read; while
\* a read is outstanding no store write and no finalize of the replicator
\* is pending (every write issued has completed, the finalize was not
\* requested), and while a write or the finalize is pending no read is;
\* in recovery mode a completion of the reader that carries a buffer while
\* no read is in flight is fatal.
C29_OneReadAtATime ==
    /\ fatal # "assert: HandleRead"
    /\ \A r \in Ops :
          /\ Cardinality(Outstanding(r)) <= 1
          /\ Outstanding(r) \subseteq { Len(peerLog[r]) }
          /\ Running /\ Live(r) /\ ReadPending(r) =>
                /\ Outstanding(r) # {}
                /\ rep[r].pend \notin {"write", "vers"}
                /\ rep[r].isRS => rep[r].mReadInFlightFlag
                /\ BytesWritten(store[r].writes) = rep[r].mOffset
                /\ store[r].versions = << >>
          /\ Running /\ Live(r) /\ rep[r].pend \in {"write", "vers"} =>
                /\ ~rep[r].readerReq
                /\ ~rep[r].mReadInFlightFlag
                /\ Outstanding(r) = {}
          /\ Running /\ Live(r) /\ rep[r].isRS /\ ~rep[r].mReadInFlightFlag =>
                \A a \in { b \in ReaderAnswers : ReaderArg(b).hasBuf } :
                    Done(ReaderWorld(World, r), r, ReaderArg(a)).fatal
                        = "recovery: invalid read completion"

\* A recovery waits for the store to complete its first write: no read is
\* in flight
C29_Witness ==
    \E r \in Ops :
        /\ rep[r].obj = "live"
        /\ rep[r].isRS
        /\ rep[r].pend = "write"
        /\ Len(peerLog[r]) = 1
        /\ Len(store[r].writes) = 1
        /\ ~rep[r].mReadInFlightFlag
        /\ ~rep[r].mCancelFlag


\* The error completion of the reader with a buffer that holds vals
StripeError(vals) == [ status |-> -EIO, size |-> 0, vals |-> vals ]

\* Buffers of one, two and three triples with indices in range (the request
\* has 2 + 1 stripes), and the text each is to be reported as
ReportedStripes ==
    { << << 2, 77, 9 >>, << "2", " ", "7", "7", " ", "9" >> >>,
      << << 0, 10, 1, 2, 77, 9 >>,
         << "0", " ", "1", "0", " ", "1", " ",
            "2", " ", "7", "7", " ", "9" >> >>,
      << << 1, 5, 0, 0, 120, 3, 2, 77, 9 >>,
         << "1", " ", "5", " ", "0", " ",
            "0", " ", "1", "2", "0", " ", "3", " ",
            "2", " ", "7", "7", " ", "9" >> >> }

\* Buffers with a stripe index out of range
BadIndexStripes ==
    { << 3, 77, 9 >>, << -1, 77, 9 >>, << 0, 10, 1, 3, 77, 9 >>,
      << 0, 10, 1, 1, 10, 1, 7, 77, 9 >> }

\* Buffers with more triples than the request has stripes
TooManyStripes ==
    { << 0, 10, 1, 1, 10, 1, 2, 77, 9, 0, 10, 1 >>,
      << 2, 77, 9, 2, 77, 9, 2, 77, 9, 2, 77, 9, 2, 77, 9 >> }

\* The replication of r has ended in world w1 with the status of the
\* reader and the report text, and nothing was written or finalized by
\* the step from world w
EndedWithReport(w, w1, r, text) ==
    /\ w1.fatal = "none"
    /\ w1.op[r].invalidStripeIdx = text
    /\ w1.op[r].status = -EIO
    /\ w1.op[r].submitted = 1
    /\ ~w1.rep[r].mOwner
    /\ w1.store[r].writes = w.store[r].writes
    /\ w1.store[r].versions = << >>
    /\ w1.peerLog[r][Len(w1.peerLog[r])].status = -EIO
    /\ Len(w1.peerLog[r]) = Len(w.peerLog[r])

\* A recovery waits for its reader and no cancel is pending
AwaitsReader(r) ==
    /\ Running
    /\ Live(r)
    /\ rep[r].readerReq
    /\ rep[r].step = "none"
    /\ ~rep[r].mPendingCancelFlag

\* sRSReaderPanicOnInvalidChunkFlag && 0 < mOwner->fileSize
Panics(w, r) == w.panic /\ 0 < w.op[r].fileSize

\* An index out of range or too many triples is fatal, whatever the flags
MalformedReportFatal(w, r) ==
    /\ \A vals \in BadIndexStripes :
          DeliverReader(w, r, StripeError(vals)).fatal
              = "recovery: completion: invalid bad stripe index"
    /\ \A vals \in TooManyStripes :
          DeliverReader(w, r, StripeError(vals)).fatal
              = "recovery: completion: invalid number of bad stripes"

\* C30 as claimed: in recovery mode, when the reader delivers a negative
\* status with a non-empty buffer of (stripeIdx, chunkId, version) triples,
\* op.invalidStripeIdx is those triples in order as space-separated decimal
\* numbers, op.status is negative and the replication terminates without
\* writing; an index outside [0, numStripes + numRecoveryStripes) or more
\* triples than that count is fatal.
C30_InvalidStripesReported ==
    \A r \in Ops :
        AwaitsReader(r) =>
            /\ \A e \in ReportedStripes :
                  EndedWithReport(World,
                                  DeliverReader(World, r, StripeError(e[1])),
                                  r, e[2])
            /\ MalformedReportFatal(World, r)

\* C30, amended: the report ends the replication with the negative status
\* unless sRSReaderPanicOnInvalidChunkFlag is set and the file size of the
\* op is positive; then invalidStripeIdx is set and the process aborts.
C30_ReportedUnlessPanic ==
    \A r \in Ops :
        AwaitsReader(r) =>
            \A size \in {0, op[r].fileSize} :
                LET w == [World EXCEPT !.op[r].fileSize = size]
                IN  /\ \A e \in ReportedStripes :
                        LET w1 == DeliverReader(w, r, StripeError(e[1]))
                        IN  IF Panics(w, r)
                            THEN /\ w1.fatal =
                                      "recovery: invalid chunk(s) detected"
                                 /\ w1.op[r].invalidStripeIdx = e[2]
                                 /\ w1.op[r].submitted = 0
                            ELSE EndedWithReport(w, w1, r, e[2])
                    /\ MalformedReportFatal(w, r)

\* The reader has reported stripe 2 of chunk 77, version 9, after the
\* first write, and the recovery has ended with the error of the reader
C30_Witness ==
    \E r \in Ops :
        /\ Running
        /\ op[r].invalidStripeIdx = << "2", " ", "7", "7", " ", "9" >>
        /\ op[r].status = -EIO
        /\ op[r].submitted = 1
        /\ Len(store[r].writes) = 1
        /\ store[r].versions = << >>


\* ------------------------------------------------------------------------
\* The meta server slot of a recovery replicator
\* ------------------------------------------------------------------------
\* min(maxRecoveryThreads, threadCount + 1)
SlotBound == Min(sMaxRecoveryThreads, Max(0, threadCount) + 1)

\* This step is a Create
CreateStep == Len(made') = Len(made) + 1

\* C31: each new recovery replicator gets a slot chosen round-robin among
\* the min(maxRecoveryThreads, threadCount + 1) slots 0 .. bound - 1: the
\* index is below the bound, and the request after the one that got slot i
\* gets slot (i + 1) % bound, so that slot 0 takes its turn.
C31_RoundRobinSlots ==
    [][ (CreateStep /\ 1 <= sMaxRecoveryThreads)
            => LET idx == made'[Len(made')].idx
               IN  /\ idx < SlotBound
                   /\ 0 <= sLastIdx => idx = (sLastIdx + 1) % SlotBound
      ]_vars

\* C31, the two halves on their own
C31_BelowBound ==
    [][ (CreateStep /\ 1 <= sMaxRecoveryThreads)
            => made'[Len(made')].idx < SlotBound ]_vars

C31_SlotZeroInTurn ==
    [][ (CreateStep /\ 2 <= SlotBound /\ sLastIdx = SlotBound - 1)
            => made'[Len(made')].idx = 0 ]_vars

\* What the code does instead: with client threads and a positive
\* maxRecoveryThreads the slots are 1 .. max(1, bound - 1) in turn
C31_SlotsSkipZero ==
    [][ (CreateStep /\ 1 <= sMaxRecoveryThreads /\ 1 <= threadCount)
            => LET idx == made'[Len(made')].idx
               IN  /\ 1 <= idx
                   /\ idx <= Max(1, SlotBound - 1)
                   /\ idx = IF 0 <= sLastIdx /\ sLastIdx + 1 < SlotBound
                            THEN sLastIdx + 1 ELSE 1
      ]_vars

\* C38: for every maxRecoveryThreads and every client thread count the
\* slot index of every replicator lies in [0, threadCount], inside the
\* array of threadCount + 1 entries, after any sequence of requests and
\* shutdowns; sLastIdx itself is -1 or such an index.
C38_SlotInsidePool ==
    /\ sLastIdx \in -1..Max(0, threadCount)
    /\ \A i \in 1..Len(made) :
          /\ made[i].idx \in 0..Max(0, threadCount)
          /\ made[i].idx \in DOMAIN sMetaServersAuth
    /\ sMaxCount # 0 =>
          DOMAIN sMetaServersAuth = 0..Max(0, threadCount)

\* A replicator made after a shutdown, in the last slot of a pool with
\* client threads, with maxRecoveryThreads 1 or less than 1
C38_Witness ==
    /\ 1 <= threadCount
    /\ \E i, j \in 1..Len(made) :
          /\ i < j
          /\ made[i].state = "cancelled"
          /\ made[j].idx = threadCount
          /\ sMaxRecoveryThreads = 1
    /\ \E k \in 1..Len(made) : made[k].idx = 0


\* ------------------------------------------------------------------------
\* Credential rotation
\* ------------------------------------------------------------------------
\* Replicator i executes its start step
StartStepOf(i) ==
    /\ i \in 1..Len(made)
    /\ made[i].state = "new"
    /\ made'[i].state = "started"

\* The op of the Create of this step carries credentials that differ
\* from the stored ones
FreshCredentials ==
    /\ CreateStep
    /\ made'[Len(made')].auth
    /\ \/ made'[Len(made')].cred.token # sAuthParams.keyId
       \/ made'[Len(made')].cred.key # sAuthParams.key

\* The credentials are written through and the counter grows
WrittenThrough ==
    /\ sAuthParams'.keyId = made'[Len(made')].cred.token
    /\ sAuthParams'.key = made'[Len(made')].cred.key
    /\ sAuthUpdateCount' > sAuthUpdateCount

\* The slot of replicator i has the parameters and the counter of now
SlotUpToDate(i) ==
    /\ sMetaServersAuth'[made[i].idx].mAuthUpdateCount = sAuthUpdateCount'
    /\ sMetaServersAuth'[made[i].idx].params = << sAuthParams' >>

\* C32: an op whose token or key differs from the stored one writes it
\* through and increases authUpdateCount; and after the start step of
\* every authenticated recovery the slot's counter equals authUpdateCount
\* and the slot's context has the stored parameters, also when they
\* changed between the creation of the replicator and its start step.
C32_CredentialRotation ==
    [][ /\ FreshCredentials => WrittenThrough
        /\ \A i \in 1..MaxCreate :
              (StartStepOf(i) /\ made[i].auth /\ fatal' = "none")
                  => SlotUpToDate(i)
      ]_vars

\* C32, the part the code keeps: the write through of Create, and the
\* start step of a replicator that Create handed the slot's counter
C32_RotationWhenHanded ==
    [][ /\ FreshCredentials => WrittenThrough
        /\ \A i \in 1..MaxCreate :
              (StartStepOf(i) /\ made[i].ptr /\ fatal' = "none")
                  => SlotUpToDate(i)
        /\ \A i \in 1..MaxCreate :
              (StartStepOf(i) /\ ~made[i].ptr)
                  => UNCHANGED sMetaServersAuth
      ]_vars

\* An authenticated replicator made with the slot up to date, and the
\* stored credentials changed before its start step
C32_StaleStart ==
    \E i \in 1..Len(made) :
        /\ made[i].auth
        /\ ~made[i].ptr
        /\ made[i].state = "started"
        /\ sMetaServersAuth[made[i].idx].mAuthUpdateCount # sAuthUpdateCount
        /\ sMetaServersAuth[made[i].idx].params # << sAuthParams >>


\* ------------------------------------------------------------------------
\* The read size of a recovery
\* ------------------------------------------------------------------------
\* A positive multiple of the I/O buffer unit and of the checksum block,
\* not larger than the maximal read size
GoodReadSize(size) ==
    /\ 0 < size
    /\ size % kIoBufferSize = 0
    /\ size % CHECKSUM_BLOCKSIZE = 0
    /\ size <= sRSReaderMaxReadSize

\* C33: with rsReaderMaxReadSize a positive multiple of
\* CHECKSUM_BLOCKSIZE, the read size of every replicator constructed, and
\* the value of GetReadSize for every op that passes the validation, is a
\* positive multiple of the I/O buffer unit and of CHECKSUM_BLOCKSIZE and
\* is not larger than rsReaderMaxReadSize.
C33_ReadSizeAligned ==
    (0 < sRSReaderMaxReadSize /\ sRSReaderMaxReadSize % CHECKSUM_BLOCKSIZE = 0)
        => /\ \A i \in 1..Len(made) :
                 made[i].state = "new" => GoodReadSize(made[i].mReadSize)
           /\ \A s \in CreateStripeSizes, n \in CreateNumStripes :
                 /\ ReadSizeAsserts(sRSReaderMaxReadSize, s)
                 /\ GoodReadSize(GetReadSize(sRSReaderMaxReadSize,
                                             clientQuota, n, s))

\* A replicator whose read size is the share of a client quota that is
\* not a multiple of the checksum block, below the maximal read size
C33_Witness ==
    /\ Len(made) = 1
    /\ made[1].state = "new"
    /\ clientQuota % CHECKSUM_BLOCKSIZE # 0
    /\ made[1].mReadSize = 2 * CHECKSUM_BLOCKSIZE
    /\ made[1].mReadSize < sRSReaderMaxReadSize
    /\ made[1].mReadSize < clientQuota


\* ------------------------------------------------------------------------
\* The counters
\* ------------------------------------------------------------------------
\* The counters of the requests, without mReplicatorCount
RequestCounters ==
    { "mReplicationCount", "mReplicationErrorCount",
      "mReplicationCanceledCount", "mRecoveryCount", "mRecoveryErrorCount",
      "mRecoveryCanceledCount" }

\* C34: all seven counters are monotonic: no step decreases any of them.
C34_CountersMonotonic ==
    [][ \A c \in DOMAIN sCounters : sCounters[c] <= sCounters'[c] ]_vars

\* C34 without mReplicatorCount: the six counters of the requests never
\* decrease
C34_RequestCountersMonotonic ==
    [][ \A c \in RequestCounters : sCounters[c] <= sCounters'[c] ]_vars

\* mReplicatorCount is the number of the replicators that exist
C34_ReplicatorCountIsLive ==
    Running =>
        sCounters.mReplicatorCount =
            Cardinality({ r \in Ops : rep[r].obj = "live" })


\* The requests of a mode that have ended: their op was submitted
Ended(direct) ==
    { r \in Ops : op[r].submitted = 1 /\ op[r].locationValid = direct }

\* C39: in every state replicationErrorCount + replicationCanceledCount <=
\* replicationCount and recoveryErrorCount + recoveryCanceledCount <=
\* recoveryCount, and the error and canceled counters of a mode together
\* are at most the number of the requests of the mode that have ended
\* (each request increments at most one of them, at most once); requests
\* rejected at entry are included.
C39_FailuresWithinRequests ==
    /\ sCounters.mReplicationErrorCount + sCounters.mReplicationCanceledCount
          <= sCounters.mReplicationCount
    /\ sCounters.mRecoveryErrorCount + sCounters.mRecoveryCanceledCount
          <= sCounters.mRecoveryCount
    /\ sCounters.mReplicationErrorCount + sCounters.mReplicationCanceledCount
          <= Cardinality(Ended(TRUE))
    /\ sCounters.mRecoveryErrorCount + sCounters.mRecoveryCanceledCount
          <= Cardinality(Ended(FALSE))

\* C39, the second half: at most one increment of an error or canceled
\* counter for each request that has ended, and none for the others
C39_OncePerRequest ==
    /\ sCounters.mReplicationErrorCount + sCounters.mReplicationCanceledCount
          <= Cardinality(Ended(TRUE))
    /\ sCounters.mRecoveryErrorCount + sCounters.mRecoveryCanceledCount
          <= Cardinality(Ended(FALSE))
    /\ \A r \in Ops :
          (op[r].submitted = 1 /\ op[r].status = 0 /\ op[r].chunkVersion >= 0)
             => sCounters.mReplicationErrorCount
                   + sCounters.mReplicationCanceledCount
                   + sCounters.mRecoveryErrorCount
                   + sCounters.mRecoveryCanceledCount
                < Cardinality(Ended(TRUE) \cup Ended(FALSE))

\* C39, the first half for the requests that passed the access header
\* test: the requests with a malformed header are counted as errors only
MalformedRejected(direct) ==
    { r \in Ended(direct) :
         op[r].statusMsg = "malformed chunk access header value" }

C39_WithinRequestsButMalformed ==
    /\ sCounters.mReplicationErrorCount + sCounters.mReplicationCanceledCount
          <= sCounters.mReplicationCount + Cardinality(MalformedRejected(TRUE))
    /\ sCounters.mRecoveryErrorCount + sCounters.mRecoveryCanceledCount
          <= sCounters.mRecoveryCount + Cardinality(MalformedRejected(FALSE))
    /\ sCounters.mReplicationCount + Cardinality(MalformedRejected(TRUE))
          = Cardinality({ r \in Ops : op[r].locationValid })


\* ------------------------------------------------------------------------
\* The staging file handle under pre-emption
\* ------------------------------------------------------------------------
\* The live replicators of a chunk that hold a staging file handle
HandleHolders(c) ==
    { r \in Ops : /\ rep[r].obj = "live"
                  /\ rep[r].mChunkId = c
                  /\ rep[r].mFileHandle }

\* C36: at any time at most one replicator of a chunkId holds a staging
\* file handle: the handle of a pre-empted replicator is released before
\* the pre-empting replicator allocates its own, in direct mode and in
\* recovery mode with the cancel handled on the client thread.
C36_OneHandlePerChunk ==
    \A c \in 1..MaxChunkId : Cardinality(HandleHolders(c)) <= 1

\* C36 for the replicators without a client thread: at most one of a
\* chunk holds a handle, none that was cancelled holds one, and the two
\* holders of a chunk are a replicator with a client thread whose cancel
\* is queued and the replicator that pre-empted it
C36_OneHandleWithoutThread ==
    /\ \A c \in 1..MaxChunkId :
          Cardinality({ r \in HandleHolders(c) : ~rep[r].hasThread }) <= 1
    /\ \A r \in Ops :
          (rep[r].obj = "live" /\ ~rep[r].hasThread /\ rep[r].mFileHandle)
              => rep[r].cancelled = "no"
    /\ \A c \in 1..MaxChunkId : \A a, b \in HandleHolders(c) :
          a < b => /\ rep[a].hasThread
                   /\ rep[a].mPendingCancelFlag
                   /\ ~rep[a].mCancelFlag

\* Two replicators of a chunk hold a handle: the first, with a client
\* thread, has its cancel queued
C36_TwoHandles ==
    \E a, b \in Ops :
        /\ a < b
        /\ {a, b} \subseteq HandleHolders(rep[a].mChunkId)
        /\ rep[a].hasThread
        /\ rep[a].mPendingCancelFlag
        /\ ~rep[a].mCancelFlag


\* ------------------------------------------------------------------------
\* The state of a recovery in its cancel handler
\* ------------------------------------------------------------------------
\* C37: the assertion mState == kStart at the end of HandleCancel holds in
\* every reachable state: after the base cancel, a state that is not kNone
\* without a read in flight is kStart, also when the cancel arrives while a
\* Read is queued to the client thread and has not run.
C37_CancelFindsStart ==
    fatal # "assert: mState == kStart"

\* A recovery with a client thread whose Read is queued to the thread and
\* has not run, with a cancel pending: the state the cancel handler finds
\* is kRead with no read in flight
C37_CancelOverQueuedRead ==
    \E r \in Ops :
        /\ rep[r].obj = "live"
        /\ rep[r].hasThread
        /\ rep[r].queued
        /\ rep[r].mPendingCancelFlag
        /\ rep[r].mState = kRead
        /\ ~rep[r].mReadInFlightFlag
        /\ rep[r].readerPos < rep[r].mOffset

\* The cancel handler that runs over a queued Read fails the assertion;
\* in a build without assertions it ends the replication
C37_QueuedReadFails ==
    [][ \A r \in Ops :
          (/\ rep[r].hasThread
           /\ rep[r].step = "deq"
           /\ ~rep[r].queued
           /\ rep[r].mPendingCancelFlag
           /\ rep[r].mState = kRead
           /\ ~rep[r].mReadInFlightFlag
           /\ rep[r].readerPos < rep[r].mOffset
           /\ rep'[r].step # "deq")
              => \/ fatal' = "assert: mState == kStart"
                 \/ ~rep'[r].mOwner
      ]_vars

\* C37 for the recoveries without a client thread: between the steps the
\* state kRead goes with a read in flight, and the assertion fails only
\* for a recovery with a client thread
C37_StartWithoutThread ==
    /\ \A r \in Ops :
          (/\ rep[r].obj = "live"
           /\ rep[r].isRS
           /\ ~rep[r].hasThread
           /\ rep[r].mState = kRead
           /\ Running)
              => rep[r].mReadInFlightFlag
    /\ fatal = "assert: mState == kStart"
          => \E r \in Ops : /\ rep[r].hasThread
                             /\ rep[r].mState = kRead
                             /\ rep[r].mCancelFlag


\* ------------------------------------------------------------------------
\* The bytes carried over between iterations
\* ------------------------------------------------------------------------
\* The write of direct replicator r is in flight and part of the buffer
\* read was kept for the next write
TailKept(r) ==
    /\ rep[r].obj = "live"
    /\ ~rep[r].isRS
    /\ rep[r].pend = "write"
    /\ rep[r].mReadOp.dataBuf # 0

\* C40: the bytes carried over between iterations are fewer than
\* CHECKSUM_BLOCKSIZE: in direct mode the remainder kept by the tail split
\* that HandleWriteDone hands to HandleReadDone again, in recovery mode
\* mReadTail after every reader completion that is not the end of the
\* chunk, and mReadTail is empty after the end of the chunk.
C40_CarryBelowBlock ==
    /\ fatal # "assert: tail shorter than a block"
    /\ \A r \in Ops :
          /\ TailKept(r) => rep[r].mReadOp.dataBuf < CHECKSUM_BLOCKSIZE
          /\ rep[r].mReadTail < CHECKSUM_BLOCKSIZE
          /\ (Running /\ Live(r) /\ rep[r].readerReq /\ rep[r].step = "none")
                => \A a \in BufferAnswers :
                      LET after == Done(ReaderWorld(World, r), r,
                                        ReaderArg(a)).rep[r]
                      IN  /\ after.mReadTail < CHECKSUM_BLOCKSIZE
                          /\ LastBuffer(rep[r], a) => after.mReadTail = 0

\* The write of the whole blocks of a direct replication is in flight, a
\* tail of less than a block was kept at the offset that follows the
\* write
C40_Witness ==
    \E r \in Ops :
        /\ TailKept(r)
        /\ rep[r].mReadOp.offset = rep[r].mOffset + rep[r].mWriteOp.numBytes
        /\ rep[r].mReadOp.dataBuf = rep[r].mChunkSize % CHECKSUM_BLOCKSIZE


\* ------------------------------------------------------------------------
\* A cancel queued to the client thread
\* ------------------------------------------------------------------------
\* The completions the environment owes replicator r
Completion(r) ==
    \/ Granted(r)
    \/ PeerSizeDone(r)
    \/ PeerReadDone(r)
    \/ DiskWriteDone(r)
    \/ ChangeChunkVersDone(r)
    \/ ReaderDone(r)
    \/ ReaderClosed(r)

\* The guards of the actions of Completion(r): a completion is owed to r
CompletionDue(r) ==
    /\ Running
    /\ Live(r)
    /\ \/ rep[r].waiting
       \/ rep[r].pend # "none"
       \/ rep[r].readerReq /\ rep[r].step = "none"
       \/ rep[r].readerOpen /\ rep[r].mPendingCloseFlag
             /\ rep[r].step = "none"

\* The steps of the client thread of r
ThreadStep(r) == ThreadDequeue(r) \/ ThreadHandle(r) \/ ThreadFinish(r)

\* The guards of the actions of ThreadStep(r)
ThreadStepDue(r) ==
    /\ Running
    /\ \/ rep[r].queued /\ rep[r].step = "none"
       \/ rep[r].step = "deq"
       \/ Live(r) /\ rep[r].step \in {"meta", "read"}

\* Every completion that is owed is delivered and the client thread runs
\* the entries of its queue: WF_vars(Completion(r)) and
\* WF_vars(ThreadStep(r)) with ENABLED written as the guards of the actions
Fairness ==
    \A r \in Ops :
        /\ []<>(~CompletionDue(r)) \/ []<><<Completion(r)>>_vars
        /\ []<>(~ThreadStepDue(r)) \/ []<><<ThreadStep(r)>>_vars

SpecFair == Init /\ [][Next]_vars /\ Fairness

\* Cancel() of recovery r was called from another thread and queued
CancelQueued(r) ==
    /\ rep[r].obj = "live"
    /\ rep[r].hasThread
    /\ rep[r].mPendingCancelFlag

\* C35: a recovery whose Cancel was queued to the client thread eventually
\* submits its op response, also when a Granted upcall or a store write
\* completion is delivered between the Cancel call and the cancel handler:
\* as long as its op is not submitted, a completion or a step of its
\* thread is owed to it (a run that reaches a state with nothing owed ends
\* there, and the op is never submitted).
C35_CancelledNeverStranded ==
    \A r \in Ops :
        (CancelQueued(r) /\ Running /\ op[r].submitted = 0)
            => (CompletionDue(r) \/ ThreadStepDue(r))

\* C35 as a property of the fair runs: the op is eventually submitted
C35_CancelledStillAnswers ==
    \A r \in Ops :
        (CancelQueued(r) /\ Running) ~> (op[r].submitted = 1 \/ ~Running)

\* The cancel handler has run for recovery r, which still owns its op, and
\* nothing is due to r: no completion, no step of the thread
Orphaned(r) ==
    /\ CancelQueued(r)
    /\ rep[r].mCancelFlag
    /\ rep[r].mOwner
    /\ op[r].submitted = 0
    /\ rep[r].mState = kNone
    /\ ~CompletionDue(r)
    /\ ~ThreadStepDue(r)
    /\ ~rep[r].readerOpen

C35_Orphaned ==
    Running /\ \E r \in Ops : Orphaned(r)

\* C35 as far as it holds: the recovery submits its op response or is left
\* with its op and nothing due
C35_AnswersOrOrphaned ==
    \A r \in Ops :
        (CancelQueued(r) /\ Running)
            ~> (op[r].submitted = 1 \/ ~Running \/ Orphaned(r))

\* The cancel handler of a recovery that waits for buffers or for its
\* reader ends the replication: only a handler that finds kNone with no
\* wait leaves the op behind
C35_OrphanedAfterSkip ==
    [][ \A r \in Ops :
          (~Orphaned(r) /\ Orphaned(r)')
              => /\ rep[r].step = "deq"
                 /\ rep[r].mState = kNone
                 /\ ~rep[r].waiting
      ]_vars

=============================================================================
